---------------------------- MODULE Spec2Model ----------------------------
(***************************************************************************)
(* A model of the market-data relay: the fan-out hub                       *)
(* (relay/internal/api/server.go, package fanout), the per-key rate        *)
(* limiter (relay/internal/ratelimit/ratelimit.go), the cache layer        *)
(* (relay/internal/cache/cache.go), the upstream manager                   *)
(* (unnamed/part_002) and the authentication service                       *)
(* (relay/internal/api/server.go, package auth).                           *)
(*                                                                         *)
(* Every goroutine that calls into a component is a process with a program *)
(* counter; one action is one atomic step of the Go code (a critical       *)
(* section under a mutex, one atomic operation, one channel operation).    *)
(***************************************************************************)
EXTENDS Integers, Sequences, FiniteSets, TLC

(***************************************************************************)
(* Bounds of the model.                                                    *)
(***************************************************************************)
MaxPub == 2          \* Publish calls per symbol, concurrent specification
MaxNow == 2          \* clock ticks, concurrent specification
MaxCalls == 2        \* Subscribe calls, and Unsubscribe calls, per client
SeqMaxPub == 5       \* Publish calls, sequential specification
SeqMaxBuffer == 2    \* largest subscriber_buffer_size drawn
SeqMaxThreshold == 1 \* largest slow_consumer_threshold drawn

MaxLimNow == 3       \* clock ticks of the limiter specifications
MaxObjects == 2      \* ClientLimiter objects allocated
MaxAllows == 1       \* Allow calls per key, concurrent limiter
MaxStreamsArg == 2   \* largest max_streams argument drawn
MaxRps == 2          \* largest default_rps drawn
MaxHalves == 5       \* largest burst_multiplier drawn, in halves (5 = 2.5)
BucketMaxAllows == 7 \* Allow calls, token-bucket specification
FairMaxAllows == 3   \* Allow/AllowN calls begun, rate-fairness specification

MaxSnaps == 3        \* order-book snapshot objects alive at a time
MaxLen == 2          \* price levels per side handed to UpdateOrderbook
MaxDepth == 2        \* largest max_orderbook_depth drawn
MaxSeqNo == 2        \* largest snapshot sequence drawn
MaxCap == 2          \* largest trade_history_size drawn
MaxTrades == 5       \* AddTrade calls per symbol
MaxCacheNow == 2     \* clock ticks of the cache specifications
MaxRecords == 2      \* Record calls made on the usage collector
LayerMaxTrades == 1  \* AddTrade calls per symbol between two cleanups

PoolSize == 1        \* workers of the upstream pool (ants.NewPool(100))
MaxReconnects == 1   \* failures of the connection of one stream
MaxAttempt == 66     \* largest ReconnectCount handed to calculateBackoff
MaxGateways == 2     \* gateways configured
MaxHealthNow == 1    \* clock ticks of the failover specification

MaxTtl == 1          \* largest cache_ttl drawn, in clock ticks
MaxAuthNow == 3      \* clock ticks of the authentication specification

\* fanout.zombie_timeout, in clock ticks of the model (one tick = 60 s)
ZombieTimeout == 1

\* Clock ticks of the limiter per second: tokens are counted in units of
\* 1/TicksPerSec token, so that a refill is exact.
TicksPerSec == 2

Symbols == {"A", "B"}
\* The subscribers (one WebSocket connection each).
SubIds == {"s1"}
\* The upstream stream workers that deliver updates (onData -> Publish).
Publishers == {"pA"}
Zombie == "z"
HubProcs == Publishers \cup SubIds \cup {Zombie}
Free == "free"

\* The API keys the limiter may hold an entry for.
Keys == {"k1", "k2"}
\* The goroutines calling the limiter.
LimProcs == {"g1", "g2"}
\* The keys the concurrent limiter specification calls with.
LimKeys == {"k1"}
\* The symbols subscribed upstream: one more than the pool has workers.
UpSymbols == 1..(PoolSize + 1)
UpProcs == {"u1", "u2"}
\* The addresses of Stream objects: as many as can be in use at a time (one
\* per symbol in the map, one per busy worker).
StreamAddrs == 1..(2 * PoolSize + 1)
\* The prices of order-book levels.
Prices == {1, 2}

\* The symbol whose upstream stream worker the publisher is (one worker per
\* symbol calls onData -> Hub.Publish).
PubSym(p) == "A"

VARIABLES
    \* ---- Hub (fanout) ----
    bufferSize,        \* Hub.bufferSize
    slowThreshold,     \* Hub.slowThreshold
    topics,            \* Hub.topics: symbol -> Topic.subscribers (set of ids)
    tmu,               \* Topic.mu: Free, or the process holding the write lock
    activeSubscribers, \* Hub.activeSubscribers
    droppedMessages,   \* Hub.droppedMessages
    created,           \* CreateSubscriber has run for the id
    sendChan,          \* Subscriber.SendChan: buffered contents
    chanCloses,        \* number of close(SendChan) executed on the channel
    subClosed,         \* Subscriber.closed
    subDropped,        \* Subscriber.Dropped
    lastSend,          \* Subscriber.LastSend
    now,               \* time.Now()
    pc,                \* position of every goroutine
    loc,               \* locals of every goroutine
    crashed,           \* the process died of an unrecovered panic
    \* ---- history (observations, read by no action but the call bounds) ----
    pubCount,          \* Publish calls started, per symbol
    received,          \* updates the reader dequeued, per subscriber
    offers,            \* updates Publish tried to send, per subscriber
    firstDrop,         \* index in offers of the first dropped update, 0 if none
    nSubscribes,       \* Hub.Subscribe calls made for the subscriber
    nUnsubscribes,     \* Hub.Unsubscribe calls made by the client
    sentOnClosed,      \* a send was executed on a closed channel
    \* ---- Limiter (ratelimit) ----
    defaultRPS,        \* Limiter.defaultRPS
    defaultBurst,      \* Limiter.defaultBurst
    cleanupInterval,   \* Limiter.cleanupInterval, in ticks
    limiters,          \* Limiter.limiters: key -> ClientLimiter (0: no entry)
    cl,                \* the ClientLimiter objects allocated, by address,
                       \* each with its StreamLimiter
    lnow,              \* time.Now()
    lpc,               \* position of every goroutine calling the limiter
    lloc,              \* its locals
    burstMultiplierIn, \* cfg.BurstMultiplier handed to NewLimiter, in halves
    \* ---- history ----
    allowLog,          \* per key: <<time, n, admitted>> of every Allow/AllowN
    firstAcq,          \* per key: max_streams of the first AcquireStream call
    \* ---- Cache layer ----
    maxDepth,          \* Layer.maxDepth
    tradeSize,         \* Layer.tradeSize
    orderbooks,        \* Layer.orderbooks: symbol -> snapshot address (0: none)
    trades,            \* Layer.trades: symbol -> TradeRingBuffer (NoRing: none)
    snaps,             \* the OrderbookSnapshot objects, by address
    arrs,              \* the []PriceLevel arrays, by address
    cnow,              \* time.Now()
    args,              \* snapshots passed to UpdateOrderbook that their
                       \* callers still hold
    got,               \* copies returned by GetOrderbook that their callers
                       \* still hold, in the order returned
    \* ---- history ----
    lastGot,           \* what the last GetOrderbook returned, if no
                       \* UpdateOrderbook came after it
    lastUpd,           \* per symbol: what the last UpdateOrderbook was given
    cop,               \* the last cache operation (a: the object a caller
                       \* wrote to, thr: the threshold of a Cleanup)
    tradeLog,          \* per symbol: the trades added to its ring
    lastRecent,        \* the last GetRecentTrades call and its result
    \* ---- Upstream manager ----
    streams,           \* Manager.streams: symbol -> Stream (index in sobj, 0: none)
    sobj,              \* the Stream objects by address, with their context
                       \* (cancelled), their worker and ReconnectCount (rc)
    streamsMu,         \* holder of Manager.streamsMu ("-": free)
    poolRunning,       \* busy workers of Manager.pool
    upc,               \* per caller: where it is in its call
    uloc,              \* per caller: its call and locals
    uret,              \* per caller: what its last call returned
    ctxDone,           \* m.ctx is cancelled
    poolClosed,        \* m.pool is released
    poolCap,           \* the capacity of m.pool
    \* ---- history ----
    uev,               \* the last data sink call or return of a worker
    \* ---- Upstream manager: backoff, gateways, failover ----
    backoff,           \* cfg.ReconnectBaseDelay, cfg.ReconnectMaxDelay, the
                       \* ReconnectCount of a stream and its last delay
    gateways,          \* Manager.gateways: the priorities, in slice order
    activeGateway,     \* Manager.activeGateway (index 0: nil)
    reconnecting,      \* Manager.reconnecting
    fpc,               \* per goroutine: where it is in failover, or in the
                       \* health-check loop
    floc,              \* per goroutine: loop index of failover, connections
                       \* it attempted, what it returned
    healthy,           \* the gateways that answer (environment)
    hnow,              \* time.Now()
    startRet,          \* what Manager.Start returned ("-": not called)
    \* ---- Authentication service ----
    cacheTTL,          \* Service.cacheTTL, in clock ticks
    authCache,         \* Service.cache: key hash -> AuthContext (NoAuth: none)
    repo,              \* the rows of the repository, by key hash
    repoUp,            \* the repository answers
    anow,              \* time.Now()
    apc,               \* per caller: where it is in Authenticate
    aloc,              \* per caller: its credential, the record it holds,
                       \* what Authenticate returned, and history
    lastUsed,          \* last_used_at, and whether an updateLastUsed
                       \* goroutine is due
    \* ---- WebSocket handler ----
    collector,         \* the usage Collector: its buffer map, the
                       \* UsageBuffer objects, its callers; history: the
                       \* Record calls made and the counts handed to the
                       \* repository
    ws                 \* per connection (subscriber): where handleIncoming
                       \* is (in), the message it handles (sym), where
                       \* Handle is (out), the frames written to the
                       \* connection so far (conn); history: the symbols
                       \* it asked to subscribe to (asked), those of them
                       \* that had a cached book when first asked (cached)

cfgVars == <<bufferSize, slowThreshold>>
counterVars == <<activeSubscribers, droppedMessages>>
subVars == <<created, sendChan, chanCloses, subClosed, subDropped, lastSend>>
histVars == <<pubCount, received, offers, firstDrop, nSubscribes,
              nUnsubscribes, sentOnClosed>>
hubVars == <<cfgVars, topics, tmu, counterVars, subVars, now, pc, loc,
             crashed, histVars>>

limVars == <<defaultRPS, defaultBurst, burstMultiplierIn, cleanupInterval,
             limiters, cl, lnow, lpc, lloc, allowLog, firstAcq>>

cacheVars == <<maxDepth, tradeSize, orderbooks, trades, snaps, arrs, cnow,
               args, got, lastGot, lastUpd, cop, tradeLog, lastRecent>>

upVars == <<streams, sobj, streamsMu, poolRunning, upc, uloc, uret, ctxDone,
            poolClosed, poolCap, uev>>

mgrVars == <<backoff, gateways, activeGateway, reconnecting, fpc, floc,
             healthy, hnow, startRet>>

authVars == <<cacheTTL, authCache, repo, repoUp, anow, apc, aloc, lastUsed>>

wsVars == <<ws>>

usageVars == <<collector>>

vars == <<hubVars, limVars, cacheVars, upVars, mgrVars, authVars, wsVars,
          usageVars>>

\* What a step of one component leaves alone.
nonHubVars == <<limVars, cacheVars, upVars, mgrVars, authVars, wsVars, usageVars>>
nonLimVars == <<hubVars, cacheVars, upVars, mgrVars, authVars, wsVars, usageVars>>
nonCacheVars == <<hubVars, limVars, upVars, mgrVars, authVars, wsVars, usageVars>>
nonUpVars == <<hubVars, limVars, cacheVars, mgrVars, authVars, wsVars, usageVars>>
nonMgrVars == <<hubVars, limVars, cacheVars, upVars, authVars, wsVars, usageVars>>
nonAuthVars == <<hubVars, limVars, cacheVars, upVars, mgrVars, wsVars, usageVars>>
nonWsVars == <<hubVars, limVars, cacheVars, upVars, mgrVars, authVars, usageVars>>
nonUsageVars == <<hubVars, limVars, cacheVars, upVars, mgrVars, authVars, wsVars>>

-----------------------------------------------------------------------------
(***************************************************************************)
(* Fan-out hub                                                             *)
(***************************************************************************)

\* The locals of a goroutine that is in no hub operation.
NoLoc == [sym |-> "-", sub |-> "-", set |-> {}, upd |-> 0, t |-> 0]

\* NewHub, before any CreateSubscriber.
HubInitWith(b, t) ==
    /\ bufferSize = b
    /\ slowThreshold = t
    /\ topics = << >>
    /\ tmu = [s \in Symbols |-> Free]
    /\ activeSubscribers = 0
    /\ droppedMessages = 0
    /\ created = [s \in SubIds |-> FALSE]
    /\ sendChan = [s \in SubIds |-> << >>]
    /\ chanCloses = [s \in SubIds |-> 0]
    /\ subClosed = [s \in SubIds |-> FALSE]
    /\ subDropped = [s \in SubIds |-> 0]
    /\ lastSend = [s \in SubIds |-> 0]
    /\ now = 0
    /\ pc = [p \in HubProcs |-> "idle"]
    /\ loc = [p \in HubProcs |-> NoLoc]
    /\ crashed = FALSE
    /\ pubCount = [s \in Symbols |-> 0]
    /\ received = [s \in SubIds |-> << >>]
    /\ offers = [s \in SubIds |-> << >>]
    /\ firstDrop = [s \in SubIds |-> 0]
    /\ nSubscribes = [s \in SubIds |-> 0]
    /\ nUnsubscribes = [s \in SubIds |-> 0]
    /\ sentOnClosed = FALSE

HasTopic(sym) == sym \in DOMAIN topics

\* A step of goroutine p at position at.
At(p, at) == ~crashed /\ pc[p] = at

Goto(p, to) == pc' = [pc EXCEPT ![p] = to]

\* A panic unwinds the goroutine without running the (not deferred) Unlock.
\* Publish runs on an ants pool worker (Manager.Subscribe submits runStream),
\* which recovers the panic and ends the worker; every other goroutine is a
\* plain `go` statement, where a panic ends the whole process.
Panic(p) ==
    /\ Goto(p, "panicked")
    /\ crashed' = (p \notin Publishers)

\* Hub.Unsubscribe returns: to the Publish loop (handleSlowConsumer), or to
\* the caller.
UnsubReturn(p) ==
    IF p \in Publishers
    THEN /\ Goto(p, "pub_loop")
         /\ UNCHANGED loc
    ELSE /\ Goto(p, "idle")
         /\ loc' = [loc EXCEPT ![p] = NoLoc]

\* Hub.CreateSubscriber
CreateSubscriber(s) ==
    /\ At(s, "idle") /\ ~created[s]
    /\ created' = [created EXCEPT ![s] = TRUE]
    /\ lastSend' = [lastSend EXCEPT ![s] = now]
    /\ UNCHANGED <<cfgVars, topics, tmu, counterVars, sendChan, chanCloses,
                   subClosed, subDropped, now, pc, loc, crashed, histVars>>

\* Hub.Subscribe, the call (WSHandler.handleIncoming, op "subscribe")
SubscribeCall(s, sym) ==
    /\ At(s, "idle") /\ created[s]
    /\ nSubscribes[s] < MaxCalls
    /\ Goto(s, "sub_topic")
    /\ loc' = [loc EXCEPT ![s] = [NoLoc EXCEPT !.sym = sym, !.sub = s]]
    /\ nSubscribes' = [nSubscribes EXCEPT ![s] = @ + 1]
    /\ UNCHANGED <<cfgVars, topics, tmu, counterVars, subVars, now, crashed,
                   pubCount, received, offers, firstDrop, nUnsubscribes,
                   sentOnClosed>>

\* Hub.Subscribe: h.mu.Lock(); look the topic up or create it; h.mu.Unlock()
SubTopic(p) ==
    /\ At(p, "sub_topic")
    /\ topics' = IF HasTopic(loc[p].sym) THEN topics
                 ELSE [x \in DOMAIN topics \cup {loc[p].sym} |->
                          IF x = loc[p].sym THEN {} ELSE topics[x]]
    /\ Goto(p, "sub_add")
    /\ UNCHANGED <<cfgVars, tmu, counterVars, subVars, now, loc, crashed,
                   histVars>>

\* Hub.Subscribe: topic.mu.Lock(); topic.subscribers[sub.ID] = sub; Unlock()
SubAdd(p) ==
    /\ At(p, "sub_add")
    /\ tmu[loc[p].sym] = Free
    /\ topics' = [topics EXCEPT ![loc[p].sym] = @ \cup {loc[p].sub}]
    /\ Goto(p, "sub_count")
    /\ UNCHANGED <<cfgVars, tmu, counterVars, subVars, now, loc, crashed,
                   histVars>>

\* Hub.Subscribe: h.activeSubscribers.Add(1)
SubCount(p) ==
    /\ At(p, "sub_count")
    /\ activeSubscribers' = activeSubscribers + 1
    /\ Goto(p, "idle")
    /\ loc' = [loc EXCEPT ![p] = NoLoc]
    /\ UNCHANGED <<cfgVars, topics, tmu, droppedMessages, subVars, now,
                   crashed, histVars>>

\* Hub.Unsubscribe, the call (WSHandler.handleIncoming, op "unsubscribe")
UnsubscribeCall(s, sym) ==
    /\ At(s, "idle") /\ created[s]
    /\ nUnsubscribes[s] < MaxCalls
    /\ Goto(s, "unsub_lookup")
    /\ loc' = [loc EXCEPT ![s] = [NoLoc EXCEPT !.sym = sym, !.sub = s]]
    /\ nUnsubscribes' = [nUnsubscribes EXCEPT ![s] = @ + 1]
    /\ UNCHANGED <<cfgVars, topics, tmu, counterVars, subVars, now, crashed,
                   pubCount, received, offers, firstDrop, nSubscribes,
                   sentOnClosed>>

\* Hub.Unsubscribe: h.mu.RLock(); topic, ok := h.topics[symbol]; RUnlock()
UnsubLookup(p) ==
    /\ At(p, "unsub_lookup")
    /\ IF HasTopic(loc[p].sym)
       THEN Goto(p, "unsub_lock") /\ UNCHANGED loc
       ELSE UnsubReturn(p)
    /\ UNCHANGED <<cfgVars, topics, tmu, counterVars, subVars, now, crashed,
                   histVars>>

\* Hub.Unsubscribe: topic.mu.Lock(); if sub, exists := ...; (else Unlock())
UnsubLock(p) ==
    /\ At(p, "unsub_lock")
    /\ tmu[loc[p].sym] = Free
    /\ IF loc[p].sub \in topics[loc[p].sym]
       THEN /\ tmu' = [tmu EXCEPT ![loc[p].sym] = p]
            /\ Goto(p, "unsub_close")
            /\ UNCHANGED loc
       ELSE /\ UnsubReturn(p)
            /\ UNCHANGED tmu
    /\ UNCHANGED <<cfgVars, topics, counterVars, subVars, now, crashed,
                   histVars>>

\* close(ch) panics on a channel that close() already ran on.
ClosePanics(n) == n >= 1

\* Hub.Unsubscribe: sub.closed.Store(true); close(sub.SendChan)
UnsubClose(p) ==
    /\ At(p, "unsub_close")
    /\ subClosed' = [subClosed EXCEPT ![loc[p].sub] = TRUE]
    /\ chanCloses' = [chanCloses EXCEPT ![loc[p].sub] = @ + 1]
    /\ IF ClosePanics(chanCloses[loc[p].sub])
       THEN Panic(p)
       ELSE Goto(p, "unsub_delete") /\ UNCHANGED crashed
    /\ UNCHANGED <<cfgVars, topics, tmu, counterVars, created, sendChan,
                   subDropped, lastSend, now, loc, histVars>>

\* Hub.Unsubscribe: delete(topic.subscribers, subID); Add(-1); Unlock()
UnsubDelete(p) ==
    /\ At(p, "unsub_delete")
    /\ topics' = [topics EXCEPT ![loc[p].sym] = @ \ {loc[p].sub}]
    /\ activeSubscribers' = activeSubscribers - 1
    /\ tmu' = [tmu EXCEPT ![loc[p].sym] = Free]
    /\ UnsubReturn(p)
    /\ UNCHANGED <<cfgVars, droppedMessages, subVars, now, crashed, histVars>>

\* Hub.Publish, the call: the stream worker of the symbol hands the next
\* update of the symbol to onData -> Publish.
PublishCall(p, bound) ==
    /\ At(p, "idle")
    /\ pubCount[PubSym(p)] < bound
    /\ pubCount' = [pubCount EXCEPT ![PubSym(p)] = @ + 1]
    /\ loc' = [loc EXCEPT ![p] = [NoLoc EXCEPT !.sym = PubSym(p),
                                               !.upd = pubCount[PubSym(p)] + 1]]
    /\ Goto(p, "pub_lookup")
    /\ UNCHANGED <<cfgVars, topics, tmu, counterVars, subVars, now, crashed,
                   received, offers, firstDrop, nSubscribes, nUnsubscribes,
                   sentOnClosed>>

\* Hub.Publish: h.mu.RLock(); topic, ok := h.topics[symbol]; RUnlock()
PubLookup(p) ==
    /\ At(p, "pub_lookup")
    /\ IF HasTopic(loc[p].sym)
       THEN Goto(p, "pub_snap") /\ UNCHANGED loc
       ELSE Goto(p, "idle") /\ loc' = [loc EXCEPT ![p] = NoLoc]
    /\ UNCHANGED <<cfgVars, topics, tmu, counterVars, subVars, now, crashed,
                   histVars>>

\* Hub.Publish: topic.mu.RLock(); copy the subscribers; RUnlock().
\* The read lock is taken and released inside the step, so it is only
\* visible as the wait for a writer.
PubSnapshot(p) ==
    /\ At(p, "pub_snap")
    /\ tmu[loc[p].sym] = Free
    /\ loc' = [loc EXCEPT ![p].set = topics[loc[p].sym]]
    /\ Goto(p, "pub_loop")
    /\ UNCHANGED <<cfgVars, topics, tmu, counterVars, subVars, now, crashed,
                   histVars>>

\* Hub.Publish: the loop head, for _, sub := range subscribers (the order of
\* a copy of a Go map is arbitrary), and `if sub.closed.Load() { continue }`.
\* With nothing left Publish returns.
PubNext(p) ==
    /\ At(p, "pub_loop")
    /\ IF loc[p].set = {}
       THEN /\ Goto(p, "idle")
            /\ loc' = [loc EXCEPT ![p] = NoLoc]
       ELSE \E s \in loc[p].set :
            /\ loc' = [loc EXCEPT ![p].set = @ \ {s}, ![p].sub = s]
            /\ Goto(p, IF subClosed[s] THEN "pub_loop" ELSE "pub_send")
    /\ UNCHANGED <<cfgVars, topics, tmu, counterVars, subVars, now, crashed,
                   histVars>>

\* Variant: a send that puts the update at the head of the queue.
ChanSendFront(q, u) == <<u>> \o q

\* A buffered channel is a FIFO queue: a send appends.
ChanSend(q, u) == Append(q, u)

\* select { case ch <- u: ... default: ... } takes the send iff the buffer
\* has room.
ChanHasRoom(q, cap) == Len(q) < cap

\* Variant: eviction already when the drops reach the threshold.
SlowConsumerAtThreshold(dropped, threshold) == dropped >= threshold

\* Hub.Publish: if sub.Dropped.Load() > int64(h.slowThreshold)
SlowConsumer(dropped, threshold) == dropped > threshold

\* Hub.Publish: the select on sub.SendChan. A send on a closed channel
\* panics; a send with room enqueues and sets LastSend; otherwise the update
\* is dropped and counted, and a slow consumer is unsubscribed
\* (handleSlowConsumer).
PubSend(p) ==
    /\ At(p, "pub_send")
    /\ LET s == loc[p].sub
           u == <<loc[p].sym, loc[p].upd>>
       IN
       /\ offers' = [offers EXCEPT ![s] = Append(@, u)]
       /\ IF chanCloses[s] > 0
          THEN /\ sentOnClosed' = TRUE
               /\ Panic(p)
               /\ UNCHANGED <<sendChan, lastSend, subDropped, droppedMessages,
                              firstDrop>>
          ELSE IF ChanHasRoom(sendChan[s], bufferSize)
          THEN /\ sendChan' = [sendChan EXCEPT ![s] = ChanSend(@, u)]
               /\ lastSend' = [lastSend EXCEPT ![s] = now]
               /\ Goto(p, "pub_loop")
               /\ UNCHANGED <<subDropped, droppedMessages, firstDrop,
                              sentOnClosed, crashed>>
          ELSE /\ subDropped' = [subDropped EXCEPT ![s] = @ + 1]
               /\ droppedMessages' = droppedMessages + 1
               /\ firstDrop' = [firstDrop EXCEPT ![s] =
                                   IF @ = 0 THEN Len(offers[s]) + 1 ELSE @]
               /\ Goto(p, IF SlowConsumer(subDropped[s] + 1, slowThreshold)
                          THEN "unsub_lookup" ELSE "pub_loop")
               /\ UNCHANGED <<sendChan, lastSend, sentOnClosed, crashed>>
    /\ UNCHANGED <<cfgVars, topics, tmu, activeSubscribers, created,
                   chanCloses, subClosed, now, loc, pubCount, received,
                   nSubscribes, nUnsubscribes>>

\* Hub.CleanupZombies: h.mu.RLock(); copy the topics; RUnlock(); now := ...
ZombieCall ==
    /\ At(Zombie, "idle")
    /\ loc' = [loc EXCEPT ![Zombie] = [NoLoc EXCEPT !.upd = DOMAIN topics,
                                                    !.t = now]]
    /\ Goto(Zombie, "z_next")
    /\ UNCHANGED <<cfgVars, topics, tmu, counterVars, subVars, now, crashed,
                   histVars>>

\* Hub.CleanupZombies: for _, topic := range topics { topic.mu.Lock()
ZombieNext ==
    /\ At(Zombie, "z_next")
    /\ IF loc[Zombie].upd = {}
       THEN /\ Goto(Zombie, "idle")
            /\ loc' = [loc EXCEPT ![Zombie] = NoLoc]
            /\ UNCHANGED tmu
       ELSE \E sym \in loc[Zombie].upd :
            /\ tmu[sym] = Free
            /\ tmu' = [tmu EXCEPT ![sym] = Zombie]
            /\ loc' = [loc EXCEPT ![Zombie].upd = @ \ {sym},
                                  ![Zombie].sym = sym,
                                  ![Zombie].set = topics[sym]]
            /\ Goto(Zombie, "z_scan")
    /\ UNCHANGED <<cfgVars, topics, counterVars, subVars, now, crashed,
                   histVars>>

\* Hub.CleanupZombies: now.Sub(sub.LastSend) > h.zombieTimeout
IsZombie(t, last) == t - last > ZombieTimeout

\* Hub.CleanupZombies: for subID, sub := range topic.subscribers with the
\* test `now.Sub(sub.LastSend) > h.zombieTimeout && !sub.closed.Load()`;
\* after the last subscriber, topic.mu.Unlock().
ZombieScan ==
    /\ At(Zombie, "z_scan")
    /\ IF loc[Zombie].set = {}
       THEN /\ tmu' = [tmu EXCEPT ![loc[Zombie].sym] = Free]
            /\ Goto(Zombie, "z_next")
            /\ loc' = [loc EXCEPT ![Zombie].sym = "-", ![Zombie].sub = "-"]
       ELSE \E s \in loc[Zombie].set :
            /\ loc' = [loc EXCEPT ![Zombie].set = @ \ {s}, ![Zombie].sub = s]
            /\ Goto(Zombie, IF IsZombie(loc[Zombie].t, lastSend[s]) /\ ~subClosed[s]
                            THEN "z_close" ELSE "z_scan")
            /\ UNCHANGED tmu
    /\ UNCHANGED <<cfgVars, topics, counterVars, subVars, now, crashed,
                   histVars>>

\* Hub.CleanupZombies: sub.closed.Store(true); close(sub.SendChan);
\* delete(topic.subscribers, subID); h.activeSubscribers.Add(-1)
ZombieClose ==
    /\ At(Zombie, "z_close")
    /\ LET s == loc[Zombie].sub IN
       /\ subClosed' = [subClosed EXCEPT ![s] = TRUE]
       /\ chanCloses' = [chanCloses EXCEPT ![s] = @ + 1]
       /\ IF ClosePanics(chanCloses[s])
          THEN /\ Panic(Zombie)
               /\ UNCHANGED <<topics, activeSubscribers>>
          ELSE /\ topics' = [topics EXCEPT ![loc[Zombie].sym] = @ \ {s}]
               /\ activeSubscribers' = activeSubscribers - 1
               /\ Goto(Zombie, "z_scan")
               /\ UNCHANGED crashed
    /\ UNCHANGED <<cfgVars, tmu, droppedMessages, created, sendChan,
                   subDropped, lastSend, now, loc, histVars>>

\* WSHandler.Handle: case msg, ok := <-sub.SendChan (a closed channel still
\* hands out what it buffered).
Dequeue(s) ==
    /\ ~crashed /\ created[s]
    /\ Len(sendChan[s]) > 0
    /\ received' = [received EXCEPT ![s] = Append(@, Head(sendChan[s]))]
    /\ sendChan' = [sendChan EXCEPT ![s] = Tail(@)]
    /\ UNCHANGED <<cfgVars, topics, tmu, counterVars, created, chanCloses,
                   subClosed, subDropped, lastSend, now, pc, loc, crashed,
                   pubCount, offers, firstDrop, nSubscribes, nUnsubscribes,
                   sentOnClosed>>

\* Time passes.
Tick ==
    /\ ~crashed /\ now < MaxNow
    /\ now' = now + 1
    /\ UNCHANGED <<cfgVars, topics, tmu, counterVars, subVars, pc, loc,
                   crashed, histVars>>

-----------------------------------------------------------------------------
(***************************************************************************)
(* Rate limiter                                                            *)
(***************************************************************************)

\* The locals of a call: its arguments (max: maxStreams, until getOrCreate
\* has used it), the ClientLimiter it got (cl), and what it returns (res).
NoLLoc == [op |-> "-", key |-> "-", n |-> 0, max |-> 0, cl |-> 0,
           res |-> FALSE]

Min(a, b) == IF a < b THEN a ELSE b

\* NewLimiter: `if cfg.BurstMultiplier < 1 { cfg.BurstMultiplier = 2.0 }`,
\* the multiplier in halves.
EffectiveHalves(halves) == IF halves < 2 THEN 4 ELSE halves

\* Variant: the burst rounded up instead of truncated.
DefaultBurstRoundedUp(rps, halves) ==
    (rps * (IF halves < 2 THEN 4 ELSE halves) + 1) \div 2

\* NewLimiter: defaultBurst = int(float64(cfg.DefaultRPS) * cfg.BurstMultiplier);
\* the product of an int and a multiple of 0.5 is exact in float64 and int()
\* truncates it.
DefaultBurst(rps, halves) == (rps * EffectiveHalves(halves)) \div 2

\* NewLimiter(cfg): the limiter after construction, with no key.
LimInitWith(rps, halves, interval) ==
    /\ defaultRPS = rps
    /\ defaultBurst = DefaultBurst(rps, halves)
    /\ burstMultiplierIn = halves
    /\ cleanupInterval = interval
    /\ limiters = [k \in Keys |-> 0]
    /\ cl = << >>
    /\ lnow = 0
    /\ lpc = [p \in LimProcs |-> "idle"]
    /\ lloc = [p \in LimProcs |-> NoLLoc]
    /\ allowLog = [k \in Keys |-> << >>]
    /\ firstAcq = [k \in Keys |-> 0]

\* NewStreamLimiter(maxStreams)
NewStreamLimiter(maxStreams) == [max |-> maxStreams, active |-> 0]

\* Variant: full only above the limit.
SemFullAboveMax(s) == s.active > s.max

\* StreamLimiter.Acquire: `if sl.activeStreams >= sl.maxStreams { return false }`
SemFull(s) == s.active >= s.max

\* StreamLimiter.Acquire, the semaphore after the call
SemAcquire(s) == IF SemFull(s) THEN s ELSE [s EXCEPT !.active = @ + 1]

\* Variant: a release that does not check for zero.
SemReleaseUnchecked(s) == [s EXCEPT !.active = @ - 1]

\* StreamLimiter.Release: `if sl.activeStreams > 0 { sl.activeStreams-- }`
SemRelease(s) == IF s.active > 0 THEN [s EXCEPT !.active = @ - 1] ELSE s

\* rate.NewLimiter(rate.Limit(rps), burst) inside a new ClientLimiter: the
\* bucket starts full (its first advance runs from the zero time).
NewClientLimiter(rps, burst, maxStreams, t) ==
    [rate |-> rps, burst |-> burst, tokens |-> burst * TicksPerSec,
     last |-> t, streams |-> NewStreamLimiter(maxStreams), lastAccess |-> t]

\* rate.Limiter.advance: the tokens at time t, at most the burst.
Advance(o, t) ==
    Min(o.burst * TicksPerSec, o.tokens + (t - o.last) * o.rate)

\* rate.Limiter.AllowN(t, n): admitted iff n tokens are there.
BucketAdmits(o, t, n) ==
    n <= o.burst /\ Advance(o, t) - n * TicksPerSec >= 0

\* rate.Limiter.AllowN(t, n), the bucket after the call: an admitted call
\* takes the tokens, a rejected one changes nothing.
BucketTake(o, t, n) ==
    IF BucketAdmits(o, t, n)
    THEN [o EXCEPT !.tokens = Advance(o, t) - n * TicksPerSec, !.last = t]
    ELSE o

\* History: the max_streams with which the key's entry is expected to
\* enforce: that of the first AcquireStream whose getOrCreate returns the
\* entry, or the one SetLimit set; forgotten when the GC removes the entry.
NoteAcquire(p) ==
    firstAcq' = [firstAcq EXCEPT ![lloc[p].key] =
                    IF lloc[p].op = "acquire" /\ @ = 0 THEN lloc[p].max ELSE @]

LAt(p, at) == lpc[p] = at
LGoto(p, to) == lpc' = [lpc EXCEPT ![p] = to]

\* Limiter.Allow(key) (n = 1) and Limiter.AllowN(key, n), the call:
\* getOrCreate(key, l.defaultRPS, l.defaultRPS)
AllowCall(p, key, n, bound) ==
    /\ LAt(p, "idle")
    /\ Len(allowLog[key]) < bound
    /\ lloc' = [lloc EXCEPT ![p] = [NoLLoc EXCEPT !.op = "allow", !.key = key,
                    !.n = n, !.max = defaultRPS]]
    /\ LGoto(p, "goc_read")
    /\ UNCHANGED <<defaultRPS, defaultBurst, burstMultiplierIn,
                   cleanupInterval, limiters, cl, lnow, allowLog,
                   firstAcq>>

\* Limiter.AcquireStream(key, maxStreams), the call:
\* getOrCreate(key, l.defaultRPS, maxStreams)
AcquireCall(p, key, m) ==
    /\ LAt(p, "idle")
    /\ lloc' = [lloc EXCEPT ![p] = [NoLLoc EXCEPT !.op = "acquire",
                    !.key = key, !.max = m]]
    /\ LGoto(p, "goc_read")
    /\ UNCHANGED <<defaultRPS, defaultBurst, burstMultiplierIn,
                   cleanupInterval, limiters, cl, lnow, allowLog,
                   firstAcq>>

\* Limiter.getOrCreate: l.mu.RLock(); limiter, ok := l.limiters[key]; RUnlock()
GocRead(p) ==
    /\ LAt(p, "goc_read")
    /\ IF limiters[lloc[p].key] # 0
       THEN /\ lloc' = [lloc EXCEPT ![p].cl = limiters[lloc[p].key],
                                     ![p].max = 0]
            /\ NoteAcquire(p)
            /\ LGoto(p, "do")
       ELSE /\ LGoto(p, "goc_write")
            /\ UNCHANGED <<lloc, firstAcq>>
    /\ UNCHANGED <<defaultRPS, defaultBurst, burstMultiplierIn,
                   cleanupInterval, limiters, cl, lnow, allowLog>>

\* Limiter.getOrCreate: l.mu.Lock(); the double check; else a new
\* ClientLimiter{rate.NewLimiter(rps, l.defaultBurst), NewStreamLimiter(maxStreams)}
GocWrite(p) ==
    /\ LAt(p, "goc_write")
    /\ IF limiters[lloc[p].key] # 0
       THEN /\ lloc' = [lloc EXCEPT ![p].cl = limiters[lloc[p].key],
                                     ![p].max = 0]
            /\ UNCHANGED <<limiters, cl>>
       ELSE /\ Len(cl) < MaxObjects
            /\ cl' = Append(cl, NewClientLimiter(defaultRPS, defaultBurst,
                                                 lloc[p].max, lnow))
            /\ limiters' = [limiters EXCEPT ![lloc[p].key] = Len(cl) + 1]
            /\ lloc' = [lloc EXCEPT ![p].cl = Len(cl) + 1, ![p].max = 0]
    /\ NoteAcquire(p)
    /\ LGoto(p, "do")
    /\ UNCHANGED <<defaultRPS, defaultBurst, burstMultiplierIn,
                   cleanupInterval, lnow, allowLog>>

\* Allow/AllowN: limiter.LastAccess = time.Now();
\* return limiter.RPS.AllowN(time.Now(), n)
DoAllow(p) ==
    /\ LAt(p, "do") /\ lloc[p].op = "allow"
    /\ LET o == cl[lloc[p].cl]
           ok == BucketAdmits(o, lnow, lloc[p].n)
       IN
       /\ cl' = [cl EXCEPT ![lloc[p].cl] =
                     [BucketTake(o, lnow, lloc[p].n) EXCEPT !.lastAccess = lnow]]
       /\ lloc' = [lloc EXCEPT ![p].res = ok]
       /\ allowLog' = [allowLog EXCEPT ![lloc[p].key] =
                          Append(@, [t |-> lnow, n |-> lloc[p].n, ok |-> ok])]
    /\ LGoto(p, "done")
    /\ UNCHANGED <<defaultRPS, defaultBurst, burstMultiplierIn,
                   cleanupInterval, limiters, lnow, firstAcq>>

\* AcquireStream: limiter.LastAccess = time.Now();
\* return limiter.Streams.Acquire()
DoAcquire(p) ==
    /\ LAt(p, "do") /\ lloc[p].op = "acquire"
    /\ LET o == cl[lloc[p].cl] IN
       /\ cl' = [cl EXCEPT ![lloc[p].cl] =
                     [o EXCEPT !.streams = SemAcquire(o.streams),
                               !.lastAccess = lnow]]
       /\ lloc' = [lloc EXCEPT ![p].res = ~SemFull(o.streams)]
    /\ LGoto(p, "done")
    /\ UNCHANGED <<defaultRPS, defaultBurst, burstMultiplierIn,
                   cleanupInterval, limiters, lnow, allowLog, firstAcq>>

\* Limiter.ReleaseStream(key), the call
ReleaseCall(p, key) ==
    /\ LAt(p, "idle")
    /\ lloc' = [lloc EXCEPT ![p] = [NoLLoc EXCEPT !.op = "release", !.key = key]]
    /\ LGoto(p, "rel_lookup")
    /\ UNCHANGED <<defaultRPS, defaultBurst, burstMultiplierIn,
                   cleanupInterval, limiters, cl, lnow, allowLog,
                   firstAcq>>

\* ReleaseStream: l.mu.RLock(); limiter, ok := l.limiters[key]; RUnlock()
RelLookup(p) ==
    /\ LAt(p, "rel_lookup")
    /\ lloc' = [lloc EXCEPT ![p].cl = limiters[lloc[p].key]]
    /\ LGoto(p, IF limiters[lloc[p].key] # 0 THEN "rel_do" ELSE "done")
    /\ UNCHANGED <<defaultRPS, defaultBurst, burstMultiplierIn,
                   cleanupInterval, limiters, cl, lnow, allowLog,
                   firstAcq>>

\* ReleaseStream: if ok && limiter.Streams != nil { limiter.Streams.Release() }
RelDo(p) ==
    /\ LAt(p, "rel_do")
    /\ cl' = [cl EXCEPT ![lloc[p].cl].streams = SemRelease(@)]
    /\ LGoto(p, "done")
    /\ UNCHANGED <<defaultRPS, defaultBurst, burstMultiplierIn,
                   cleanupInterval, limiters, lnow, lloc, allowLog,
                   firstAcq>>

\* The call returns.
LimReturn(p) ==
    /\ LAt(p, "done")
    /\ LGoto(p, "idle")
    /\ lloc' = [lloc EXCEPT ![p] = NoLLoc]
    /\ UNCHANGED <<defaultRPS, defaultBurst, burstMultiplierIn,
                   cleanupInterval, limiters, cl, lnow, allowLog,
                   firstAcq>>

\* Limiter.SetLimit(key, rps, maxStreams), all of it under l.mu.Lock():
\* an existing entry gets the rate, the burst 2*rps (SetLimit and SetBurst
\* advance the bucket to now first) and a new StreamLimiter; a missing one
\* is created.
SetLimit(p, key, rps, m) ==
    /\ LAt(p, "idle")
    /\ IF limiters[key] # 0
       THEN /\ LET o == cl[limiters[key]] IN
               cl' = [cl EXCEPT ![limiters[key]] =
                         [o EXCEPT !.tokens = Advance(o, lnow), !.last = lnow,
                                   !.rate = rps, !.burst = 2 * rps,
                                   !.streams = NewStreamLimiter(m)]]
            /\ UNCHANGED limiters
       ELSE /\ Len(cl) < MaxObjects
            /\ cl' = Append(cl, NewClientLimiter(rps, 2 * rps, m, lnow))
            /\ limiters' = [limiters EXCEPT ![key] = Len(cl) + 1]
    /\ firstAcq' = [firstAcq EXCEPT ![key] = m]
    /\ UNCHANGED <<defaultRPS, defaultBurst, burstMultiplierIn,
                   cleanupInterval, lnow, lpc, lloc, allowLog>>

\* Limiter.cleanup: `limiter.LastAccess.Before(threshold) &&
\* limiter.Streams.ActiveCount() == 0` with threshold = now - 2*cleanupInterval
Stale(o, t) ==
    o.lastAccess < t - 2 * cleanupInterval /\ o.streams.active = 0

\* Limiter.cleanup, one pass under l.mu.Lock()
Cleanup ==
    /\ \E k \in Keys : limiters[k] # 0 /\ Stale(cl[limiters[k]], lnow)
    /\ limiters' = [k \in Keys |->
                       IF limiters[k] # 0 /\ Stale(cl[limiters[k]], lnow)
                       THEN 0 ELSE limiters[k]]
    /\ firstAcq' = [k \in Keys |->
                       IF limiters[k] # 0 /\ Stale(cl[limiters[k]], lnow)
                       THEN 0 ELSE firstAcq[k]]
    /\ UNCHANGED <<defaultRPS, defaultBurst, burstMultiplierIn,
                   cleanupInterval, cl, lnow, lpc, lloc, allowLog>>

\* Time passes, d ticks at once.
LimTick(d) ==
    /\ lnow + d <= MaxLimNow
    /\ lnow' = lnow + d
    /\ UNCHANGED <<defaultRPS, defaultBurst, burstMultiplierIn,
                   cleanupInterval, limiters, cl, lpc, lloc, allowLog,
                   firstAcq>>

-----------------------------------------------------------------------------
(***************************************************************************)
(* Cache layer (relay/internal/cache/cache.go)                             *)
(*                                                                         *)
(* Order-book snapshots are objects on a heap, as in Go: the cache and its *)
(* callers hold addresses, and a side of a book is a slice (an array       *)
(* address and a length).  The snapshot at address a is made with the      *)
(* arrays 2a-1 (asks) and 2a (bids).  An object no one refers to any more  *)
(* is collected.  Every Layer method on order books runs under l.mu and is *)
(* one step.                                                               *)
(***************************************************************************)

SnapAddrs == 1..MaxSnaps
ArrAddrs == 1..(2 * MaxSnaps)

\* The sides a caller may hand in: up to n levels, one per price, in any
\* order.
Sides(n) ==
    {s \in UNION {[1..m -> Prices] : m \in 0..n} :
        \A i, j \in DOMAIN s : i # j => s[i] # s[j]}

NoSlice == [arr |-> 0, len |-> 0]
NoSnap == [symbol |-> "-", ts |-> 0, seq |-> 0, asks |-> NoSlice,
           bids |-> NoSlice]
NoValue == [symbol |-> "-", ts |-> 0, seq |-> 0, asks |-> << >>,
            bids |-> << >>]
NoRing == [buf |-> << >>, head |-> 0, count |-> 0]

\* The levels a slice denotes.
SliceValue(s) == IF s.arr = 0 THEN << >> ELSE SubSeq(arrs[s.arr], 1, s.len)

\* What the snapshot at address a reads as.
SnapValue(a) ==
    [symbol |-> snaps[a].symbol, ts |-> snaps[a].ts, seq |-> snaps[a].seq,
     asks |-> SliceValue(snaps[a].asks), bids |-> SliceValue(snaps[a].bids)]

\* The lowest address of the heap that holds no object.
Lowest(S) == CHOOSE a \in S : \A b \in S : a <= b
FreeAddrs == {a \in SnapAddrs : snaps[a] = NoSnap}
NewAddr == Lowest(FreeAddrs)

\* NewLayer(maxDepth, tradeSize)
CacheInitWith(depth, size) ==
    /\ maxDepth = depth
    /\ tradeSize = size
    /\ orderbooks = [s \in Symbols |-> 0]
    /\ trades = [s \in Symbols |-> NoRing]
    /\ snaps = [a \in SnapAddrs |-> NoSnap]
    /\ arrs = [a \in ArrAddrs |-> << >>]
    /\ cnow = 0
    /\ args = {}
    /\ got = << >>
    /\ lastGot = NoValue
    /\ lastUpd = [s \in Symbols |-> NoValue]
    /\ cop = [op |-> "-", a |-> 0, thr |-> 0]
    /\ tradeLog = [s \in Symbols |-> << >>]
    /\ lastRecent = [symbol |-> "-", n |-> 0, k |-> 0, res |-> << >>]

\* Variant: no trimming.
TrimLenKeepAll(n, depth) == n

\* UpdateOrderbook: `if len(snapshot.Asks) > l.maxDepth { snapshot.Asks =
\* snapshot.Asks[:l.maxDepth] }`: the length of the trimmed slice.
TrimLen(n, depth) == IF n > depth THEN depth ELSE n

\* The addresses still referred to by the cache or by a caller, given the
\* cache's map and the callers' references.
Reachable(books, held, copies) ==
    {books[s] : s \in Symbols} \cup held \cup {copies[i] : i \in DOMAIN copies}

\* The heap after the collection of what is not in keepSet.
Collect(h, keepSet) ==
    [a \in SnapAddrs |-> IF a \in keepSet THEN h[a] ELSE NoSnap]

\* The arrays after the collection of the snapshots not in keepSet.
CollectArrs(ar, keepSet) ==
    [x \in ArrAddrs |-> IF ((x + 1) \div 2) \in keepSet THEN ar[x] ELSE << >>]

\* The addresses free for a new snapshot of sym: those that hold no object
\* and that of the snapshot of sym in the cache if nothing else refers to
\* it (the caller allocates after that one became garbage).
FreeFor(sym) ==
    SnapAddrs \ Reachable([orderbooks EXCEPT ![sym] = 0], args, got)

\* Layer.UpdateOrderbook(snapshot) with a snapshot the caller has just
\* built from (sym, ts, seq, asks, bids); keep: the caller keeps its
\* reference to the snapshot afterwards.
UpdateOrderbook(sym, ts, seq, asks, bids, keep) ==
    /\ FreeFor(sym) # {}
    /\ LET a == Lowest(FreeFor(sym))
           obj == [symbol |-> sym, ts |-> ts, seq |-> seq,
                   asks |-> [arr |-> 2 * a - 1,
                             len |-> TrimLen(Len(asks), maxDepth)],
                   bids |-> [arr |-> 2 * a,
                             len |-> TrimLen(Len(bids), maxDepth)]]
           books == [orderbooks EXCEPT ![sym] = a]
           held == IF keep THEN args \cup {a} ELSE args
       IN
       /\ orderbooks' = books
       /\ args' = held
       /\ snaps' = Collect([snaps EXCEPT ![a] = obj],
                           Reachable(books, held, got))
       /\ arrs' = CollectArrs([arrs EXCEPT ![2 * a - 1] = asks,
                                            ![2 * a] = bids],
                               Reachable(books, held, got))
       /\ lastUpd' = [lastUpd EXCEPT ![sym] =
                         [symbol |-> sym, ts |-> ts, seq |-> seq,
                          asks |-> asks, bids |-> bids]]
       /\ cop' = [op |-> "update", a |-> 0, thr |-> 0]
    /\ lastGot' = NoValue
    /\ UNCHANGED <<maxDepth, tradeSize, trades, cnow, got, tradeLog,
                   lastRecent>>

\* Variant: the copy's slice shares the array of the source.
CopyTargetShared(srcArr, fresh) == srcArr

\* copyOrderbook: `Asks: make([]types.PriceLevel, len(src.Asks))`: the
\* array the copy's slice refers to is the one just made.
CopyTarget(srcArr, fresh) == fresh

\* Layer.GetOrderbook(symbol), returning copyOrderbook(snapshot); keep: the
\* caller keeps the copy it got.
GetOrderbook(sym, keep) ==
    /\ IF orderbooks[sym] = 0
       THEN /\ lastGot' = NoValue
            /\ UNCHANGED <<snaps, arrs, got>>
       ELSE LET src == snaps[orderbooks[sym]] IN
            /\ lastGot' = SnapValue(orderbooks[sym])
            /\ IF keep
               THEN /\ FreeAddrs # {}
                    /\ LET a == NewAddr IN
                       /\ snaps' = [snaps EXCEPT ![a] =
                             [symbol |-> src.symbol, ts |-> src.ts,
                              seq |-> src.seq,
                              asks |-> [arr |-> CopyTarget(src.asks.arr, 2 * a - 1),
                                        len |-> src.asks.len],
                              bids |-> [arr |-> CopyTarget(src.bids.arr, 2 * a),
                                        len |-> src.bids.len]]]
                       /\ arrs' = [arrs EXCEPT
                                      ![2 * a - 1] = SliceValue(src.asks),
                                      ![2 * a] = SliceValue(src.bids)]
                       /\ got' = Append(got, a)
               ELSE UNCHANGED <<snaps, arrs, got>>
    /\ cop' = [op |-> "get", a |-> 0, thr |-> 0]
    /\ UNCHANGED <<maxDepth, tradeSize, orderbooks, trades, cnow, args,
                   lastUpd, tradeLog, lastRecent>>

\* A caller writes to the snapshot at address a that it holds: price p into
\* every level of both sides, seq into its Sequence field.
Mutate(a, p, seq) ==
    /\ snaps' = [snaps EXCEPT ![a].seq = seq]
    /\ arrs' = [x \in ArrAddrs |->
                  IF x = snaps[a].asks.arr
                  THEN [i \in DOMAIN arrs[x] |->
                          IF i <= snaps[a].asks.len THEN p ELSE arrs[x][i]]
                  ELSE IF x = snaps[a].bids.arr
                  THEN [i \in DOMAIN arrs[x] |->
                          IF i <= snaps[a].bids.len THEN p ELSE arrs[x][i]]
                  ELSE arrs[x]]
    /\ cop' = [op |-> "mutate", a |-> a, thr |-> 0]
    /\ UNCHANGED <<maxDepth, tradeSize, orderbooks, trades, cnow, args, got,
                   lastGot, lastUpd, tradeLog, lastRecent>>

\* The zero value of types.Trade.
NoTrade == [symbol |-> "", id |-> 0]

\* NewTradeRingBuffer(size)
NewTradeRingBuffer(size) ==
    [buf |-> [i \in 1..size |-> NoTrade], head |-> 0, count |-> 0]

\* TradeRingBuffer.Add: rb.trades[rb.head] = trade; head = (head + 1) %
\* len; count++ up to len (buf[i + 1] is rb.trades[i]).
RingAdd(rb, trade) ==
    [buf |-> [rb.buf EXCEPT ![rb.head + 1] = trade],
     head |-> (rb.head + 1) % Len(rb.buf),
     count |-> IF rb.count < Len(rb.buf) THEN rb.count + 1 ELSE rb.count]

\* TradeRingBuffer.GetAll
RingGetAll(rb) ==
    IF rb.count < Len(rb.buf)
    THEN SubSeq(rb.buf, 1, rb.count)
    ELSE [i \in 1..rb.count |-> rb.buf[((rb.head + (i - 1)) % Len(rb.buf)) + 1]]

\* Variant: reads from the start of the array.
RingGetRecentFromStart(rb, n) ==
    SubSeq(rb.buf, 1, IF n > rb.count THEN rb.count ELSE n)

\* TradeRingBuffer.GetRecent(n), n >= 0
RingGetRecent(rb, n) ==
    LET m == IF n > rb.count THEN rb.count ELSE n IN
    [i \in 1..m |->
        rb.buf[((rb.head - m + (i - 1) + Len(rb.buf)) % Len(rb.buf)) + 1]]

\* Layer.AddTrade(trade): the ring of the symbol, made on first use, then
\* rb.Add(trade). The trade is the next one of the symbol.
AddTrade(sym, bound) ==
    /\ Len(tradeLog[sym]) < bound
    /\ LET trade == [symbol |-> sym, id |-> Len(tradeLog[sym]) + 1]
           rb == IF trades[sym] = NoRing THEN NewTradeRingBuffer(tradeSize)
                 ELSE trades[sym]
       IN
       /\ trades' = [trades EXCEPT ![sym] = RingAdd(rb, trade)]
       /\ tradeLog' = [tradeLog EXCEPT ![sym] = Append(@, trade)]
    /\ cop' = [op |-> "add", a |-> 0, thr |-> 0]
    /\ UNCHANGED <<maxDepth, tradeSize, orderbooks, snaps, arrs, cnow, args,
                   got, lastGot, lastUpd, lastRecent>>

\* Layer.GetRecentTrades(symbol, count)
GetRecentTrades(sym, n) ==
    /\ lastRecent' = [symbol |-> sym, n |-> n, k |-> Len(tradeLog[sym]),
                      res |-> IF trades[sym] = NoRing THEN << >>
                              ELSE RingGetRecent(trades[sym], n)]
    /\ cop' = [op |-> "recent", a |-> 0, thr |-> 0]
    /\ UNCHANGED <<maxDepth, tradeSize, orderbooks, trades, snaps, arrs,
                   cnow, args, got, lastGot, lastUpd, tradeLog>>

\* Variant: a snapshot exactly as old as the threshold is stale too.
IsStaleAtThreshold(sym, thr) ==
    orderbooks[sym] # 0 /\ cnow - snaps[orderbooks[sym]].ts >= thr

\* Layer.Cleanup: `if now.Sub(snapshot.Timestamp) > staleThreshold`
IsStale(sym, thr) ==
    orderbooks[sym] # 0 /\ cnow - snaps[orderbooks[sym]].ts > thr

\* Layer.Cleanup(staleThreshold)
CacheCleanup(thr) ==
    /\ LET books == [s \in Symbols |->
                        IF IsStale(s, thr) THEN 0 ELSE orderbooks[s]]
       IN
       /\ orderbooks' = books
       /\ trades' = [s \in Symbols |->
                        IF IsStale(s, thr) THEN NoRing ELSE trades[s]]
       /\ tradeLog' = [s \in Symbols |->
                          IF IsStale(s, thr) THEN << >> ELSE tradeLog[s]]
       /\ snaps' = Collect(snaps, Reachable(books, args, got))
       /\ arrs' = CollectArrs(arrs, Reachable(books, args, got))
    /\ cop' = [op |-> "cleanup", a |-> 0, thr |-> thr]
    /\ UNCHANGED <<maxDepth, tradeSize, cnow, args, got, lastGot, lastUpd,
                   lastRecent>>

\* Time passes.
CacheTick ==
    /\ cnow < MaxCacheNow
    /\ cnow' = cnow + 1
    /\ cop' = [op |-> "-", a |-> 0, thr |-> 0]
    /\ UNCHANGED <<maxDepth, tradeSize, orderbooks, trades, snaps, arrs,
                   args, got, lastGot, lastUpd, tradeLog, lastRecent>>

-----------------------------------------------------------------------------
(***************************************************************************)
(* Upstream manager (upstream.Manager)                                     *)
(*                                                                         *)
(* Callers are processes; m.streamsMu is held from Lock to the deferred    *)
(* Unlock at the return.  The ants pool is the blocking pool NewPool       *)
(* makes: Submit hands the task to a free worker and waits while every     *)
(* worker is busy, and fails once the pool is released.  A worker is busy  *)
(* for as long as runStream runs.  The worker of a stream is at the top of *)
(* runStream's loop ("top"), in streamData ("stream") or waiting out a     *)
(* backoff ("backoff"); "none": never started, "done": returned.  The read *)
(* of the connection in streamData, a placeholder in the source, is taken  *)
(* to deliver data or to fail, the two outcomes runStream handles.  A      *)
(* Stream nothing refers to any more is collected.                         *)
(***************************************************************************)

NoULoc == [op |-> "-", symbol |-> 0, stream |-> 0]
NoURet == [val |-> "-", symbols |-> {}]
NoStream == [symbol |-> 0, status |-> "-", cancelled |-> FALSE,
             worker |-> "none", rc |-> 0]
NoUEv == [ev |-> "-", symbol |-> 0, status |-> "-", stream |-> 0]

\* The lowest address that holds no Stream.
NewStream ==
    CHOOSE i \in StreamAddrs :
        /\ sobj[i] = NoStream
        /\ \A j \in StreamAddrs : sobj[j] = NoStream => i <= j

\* The Stream objects so after the collection of those that are in no map
\* entry of strs and have no worker at work.
Sweep(so, strs) ==
    [i \in StreamAddrs |->
        IF /\ \A s \in UpSymbols : strs[s] # i
           /\ so[i].worker \in {"none", "done"}
        THEN NoStream ELSE so[i]]

\* NewManager
UpInitWith(cap) ==
    /\ poolCap = cap
    /\ streams = [s \in UpSymbols |-> 0]
    /\ sobj = [i \in StreamAddrs |-> NoStream]
    /\ streamsMu = "-"
    /\ poolRunning = 0
    /\ upc = [p \in UpProcs |-> "idle"]
    /\ uloc = [p \in UpProcs |-> NoULoc]
    /\ uret = [p \in UpProcs |-> NoURet]
    /\ ctxDone = FALSE
    /\ poolClosed = FALSE
    /\ uev = NoUEv

\* NewManager
UpInit == UpInitWith(PoolSize)

\* Subscribe(symbol) is called.
UpSubscribeCall(p, s) ==
    /\ upc[p] = "idle"
    /\ upc' = [upc EXCEPT ![p] = "lock"]
    /\ uloc' = [uloc EXCEPT ![p] = [op |-> "subscribe", symbol |-> s,
                                    stream |-> 0]]
    /\ uret' = [uret EXCEPT ![p] = NoURet]
    /\ UNCHANGED <<streams, sobj, streamsMu, poolRunning, ctxDone,
                   poolClosed, poolCap, uev>>

\* Unsubscribe(symbol) is called.
UpUnsubscribeCall(p, s) ==
    /\ upc[p] = "idle"
    /\ upc' = [upc EXCEPT ![p] = "lock"]
    /\ uloc' = [uloc EXCEPT ![p] = [op |-> "unsubscribe", symbol |-> s,
                                    stream |-> 0]]
    /\ uret' = [uret EXCEPT ![p] = NoURet]
    /\ UNCHANGED <<streams, sobj, streamsMu, poolRunning, ctxDone,
                   poolClosed, poolCap, uev>>

\* GetActiveSymbols() is called.
UpGetActiveCall(p) ==
    /\ upc[p] = "idle"
    /\ upc' = [upc EXCEPT ![p] = "rlock"]
    /\ uloc' = [uloc EXCEPT ![p] = [op |-> "getactive", symbol |-> 0,
                                    stream |-> 0]]
    /\ uret' = [uret EXCEPT ![p] = NoURet]
    /\ UNCHANGED <<streams, sobj, streamsMu, poolRunning, ctxDone,
                   poolClosed, poolCap, uev>>

\* m.streamsMu.Lock()
UpLock(p) ==
    /\ upc[p] = "lock"
    /\ streamsMu = "-"
    /\ streamsMu' = p
    /\ upc' = [upc EXCEPT ![p] = "locked"]
    /\ UNCHANGED <<streams, sobj, poolRunning, uloc, uret, ctxDone,
                   poolClosed, poolCap, uev>>

\* The return of a call, and the deferred Unlock with it.
UpReturn(p, v) ==
    /\ upc' = [upc EXCEPT ![p] = "idle"]
    /\ uloc' = [uloc EXCEPT ![p] = NoULoc]
    /\ uret' = [uret EXCEPT ![p] = [val |-> v, symbols |-> {}]]
    /\ streamsMu' = "-"

\* Subscribe under the lock: `if _, exists := m.streams[symbol]; exists {
\* return nil }`, else the stream is made, with a context derived from
\* m.ctx, and registered.
UpSubRegister(p) ==
    /\ upc[p] = "locked" /\ uloc[p].op = "subscribe"
    /\ IF streams[uloc[p].symbol] # 0
       THEN /\ UpReturn(p, "nil")
            /\ UNCHANGED <<streams, sobj, poolRunning>>
       ELSE /\ sobj' = [sobj EXCEPT ![NewStream] =
                                [symbol |-> uloc[p].symbol,
                                 status |-> "connecting",
                                 cancelled |-> ctxDone,
                                 worker |-> "none",
                                 rc |-> 0]]
            /\ streams' = [streams EXCEPT ![uloc[p].symbol] = NewStream]
            /\ uloc' = [uloc EXCEPT ![p].stream = NewStream]
            /\ upc' = [upc EXCEPT ![p] = "submit"]
            /\ UNCHANGED <<streamsMu, poolRunning, uret>>
    /\ UNCHANGED <<ctxDone, poolClosed, poolCap, uev>>

\* Variant: Submit never waits.
PoolHasWorkerAlways == TRUE

\* ants Pool.Submit: a worker is free.
PoolHasWorker == poolRunning < poolCap

\* m.pool.Submit(func() { m.runStream(ctx, stream) }), then `return nil`:
\* on a released pool Submit fails (the error is dropped) and nothing
\* runs, else the task starts once a worker is free.
UpSubmit(p) ==
    /\ upc[p] = "submit"
    /\ IF poolClosed
       THEN UNCHANGED <<poolRunning, sobj>>
       ELSE /\ PoolHasWorker
            /\ poolRunning' = poolRunning + 1
            /\ sobj' = [sobj EXCEPT ![uloc[p].stream].worker = "top"]
    /\ UpReturn(p, "nil")
    /\ UNCHANGED <<streams, ctxDone, poolClosed, poolCap, uev>>

\* Variant: the map entry stays.
UnsubEntryKept(strs, s) == strs

\* Unsubscribe: `delete(m.streams, symbol)`
UnsubEntry(strs, s) == [strs EXCEPT ![s] = 0]

\* Unsubscribe under the lock: cancel and delete, if the stream exists.
UpUnsubscribe(p) ==
    /\ upc[p] = "locked" /\ uloc[p].op = "unsubscribe"
    /\ LET i == streams[uloc[p].symbol]
           strs == UnsubEntry(streams, uloc[p].symbol)
       IN
       IF i # 0
       THEN /\ sobj' = Sweep([sobj EXCEPT ![i].cancelled = TRUE], strs)
            /\ streams' = strs
       ELSE UNCHANGED <<sobj, streams>>
    /\ UpReturn(p, "done")
    /\ UNCHANGED <<poolRunning, ctxDone, poolClosed, poolCap, uev>>

\* GetActiveSymbols under m.streamsMu.RLock().
UpGetActive(p) ==
    /\ upc[p] = "rlock"
    /\ streamsMu = "-"
    /\ upc' = [upc EXCEPT ![p] = "idle"]
    /\ uloc' = [uloc EXCEPT ![p] = NoULoc]
    /\ uret' = [uret EXCEPT ![p] =
                    [val |-> "symbols",
                     symbols |-> {s \in UpSymbols : streams[s] # 0}]]
    /\ UNCHANGED <<streams, sobj, streamsMu, poolRunning, ctxDone,
                   poolClosed, poolCap, uev>>

\* Stop() is called.
UpStopCall(p) ==
    /\ upc[p] = "idle"
    /\ upc' = [upc EXCEPT ![p] = "cancel"]
    /\ uloc' = [uloc EXCEPT ![p] = [op |-> "stop", symbol |-> 0,
                                    stream |-> 0]]
    /\ uret' = [uret EXCEPT ![p] = NoURet]
    /\ UNCHANGED <<streams, sobj, streamsMu, poolRunning, ctxDone,
                   poolClosed, poolCap, uev>>

\* Stop: m.cancel(), which cancels every context derived from m.ctx.
UpStopCancel(p) ==
    /\ upc[p] = "cancel"
    /\ ctxDone' = TRUE
    /\ sobj' = [i \in StreamAddrs |->
                  IF sobj[i] = NoStream THEN NoStream
                  ELSE [sobj[i] EXCEPT !.cancelled = TRUE]]
    /\ upc' = [upc EXCEPT ![p] = "release"]
    /\ UNCHANGED <<streams, streamsMu, poolRunning, uloc, uret, poolClosed, poolCap,
                   uev>>

\* Stop: m.pool.Release()
UpStopRelease(p) ==
    /\ upc[p] = "release"
    /\ poolClosed' = TRUE
    /\ UNCHANGED poolCap
    /\ upc' = [upc EXCEPT ![p] = "lock"]
    /\ UNCHANGED <<streams, sobj, streamsMu, poolRunning, uloc, uret,
                   ctxDone, uev>>

\* Stop under the lock: stream.cancel() for every stream of the map; the
\* map keeps its entries.
UpStopStreams(p) ==
    /\ upc[p] = "locked" /\ uloc[p].op = "stop"
    /\ sobj' = [i \in StreamAddrs |->
                  IF \E s \in UpSymbols : streams[s] = i
                  THEN [sobj[i] EXCEPT !.cancelled = TRUE] ELSE sobj[i]]
    /\ UpReturn(p, "done")
    /\ UNCHANGED <<streams, poolRunning, ctxDone, poolClosed, poolCap, uev>>

\* What a worker's step tells: the data sink is invoked ("data") or
\* runStream returns ("exit"), for the Stream o.
UpEvent(e, o, i) ==
    [ev |-> e, symbol |-> o.symbol, status |-> o.status, stream |-> i]

\* runStream, top of the loop, context not done: the stream connects
\* (`stream.Status = StreamStatusActive`) and streamData begins.
WorkerConnect(i) ==
    /\ sobj[i].worker = "top"
    /\ ~sobj[i].cancelled
    /\ sobj' = [sobj EXCEPT ![i].status = "active", ![i].worker = "stream"]
    /\ UNCHANGED <<streams, streamsMu, poolRunning, upc, uloc, uret,
                   ctxDone, poolClosed, poolCap, uev>>

\* runStream, top of the loop: `case <-ctx.Done(): stream.Status =
\* StreamStatusClosed; return`; the worker goes back to the pool.
WorkerExit(i) ==
    /\ sobj[i].worker = "top"
    /\ sobj[i].cancelled
    /\ LET o == [sobj[i] EXCEPT !.status = "closed", !.worker = "done"] IN
       /\ sobj' = Sweep([sobj EXCEPT ![i] = o], streams)
       /\ uev' = UpEvent("exit", o, i)
    /\ poolRunning' = poolRunning - 1
    /\ UNCHANGED <<streams, streamsMu, upc, uloc, uret, ctxDone, poolClosed, poolCap>>

\* streamData: `case <-ticker.C:` ... m.onData(stream.Symbol, update).
\* select takes this case whenever the ticker has fired, a done context
\* notwithstanding.
WorkerData(i) ==
    /\ sobj[i].worker = "stream"
    /\ uev' = UpEvent("data", sobj[i], i)
    /\ UNCHANGED <<streams, sobj, streamsMu, poolRunning, upc, uloc, uret,
                   ctxDone, poolClosed, poolCap>>

\* streamData: `case <-ctx.Done(): return nil`, back to the top of the
\* loop of runStream.
WorkerStreamDone(i) ==
    /\ sobj[i].worker = "stream"
    /\ sobj[i].cancelled
    /\ sobj' = [sobj EXCEPT ![i].worker = "top"]
    /\ UNCHANGED <<streams, streamsMu, poolRunning, upc, uloc, uret,
                   ctxDone, poolClosed, poolCap, uev>>

\* runStream: streamData returned an error: `stream.Status =
\* StreamStatusReconnecting; stream.ReconnectCount++`, then the backoff.
WorkerFail(i, bound) ==
    /\ sobj[i].worker = "stream"
    /\ sobj[i].rc < bound
    /\ sobj' = [sobj EXCEPT ![i].status = "reconnecting",
                            ![i].rc = @ + 1,
                            ![i].worker = "backoff"]
    /\ UNCHANGED <<streams, streamsMu, poolRunning, upc, uloc, uret,
                   ctxDone, poolClosed, poolCap, uev>>

\* runStream, backoff: `case <-time.After(delay): continue`
WorkerBackoffOver(i) ==
    /\ sobj[i].worker = "backoff"
    /\ sobj' = [sobj EXCEPT ![i].worker = "top"]
    /\ UNCHANGED <<streams, streamsMu, poolRunning, upc, uloc, uret,
                   ctxDone, poolClosed, poolCap, uev>>

\* runStream, backoff: `case <-ctx.Done(): return`
WorkerBackoffCancelled(i) ==
    /\ sobj[i].worker = "backoff"
    /\ sobj[i].cancelled
    /\ LET o == [sobj[i] EXCEPT !.worker = "done"] IN
       /\ sobj' = Sweep([sobj EXCEPT ![i] = o], streams)
       /\ uev' = UpEvent("exit", o, i)
    /\ poolRunning' = poolRunning - 1
    /\ UNCHANGED <<streams, streamsMu, upc, uloc, uret, ctxDone, poolClosed, poolCap>>

-----------------------------------------------------------------------------
(***************************************************************************)
(* Upstream manager: reconnect backoff (unnamed/part_002, calculateBackoff)*)
(*                                                                         *)
(* A time.Duration is an int64 count of nanoseconds.  It is kept here as   *)
(* its 64-bit two's-complement pattern, four 16-bit limbs, least           *)
(* significant first, so that every operation wraps exactly as the Go      *)
(* operation does.                                                         *)
(***************************************************************************)
Limb == 2 ^ 16
DurZero == <<0, 0, 0, 0>>
DurOne == <<1, 0, 0, 0>>

\* The Duration of n nanoseconds, 0 <= n < 2^31.
DurOf(n) == <<n % Limb, (n \div Limb) % Limb, 0, 0>>

\* x + y on int64 (wraps).
DurAdd(x, y) ==
    LET s1 == x[1] + y[1]
        s2 == x[2] + y[2] + (s1 \div Limb)
        s3 == x[3] + y[3] + (s2 \div Limb)
        s4 == x[4] + y[4] + (s3 \div Limb)
    IN  <<s1 % Limb, s2 % Limb, s3 % Limb, s4 % Limb>>

\* -x on int64.
DurNeg(x) ==
    DurAdd(<<Limb - 1 - x[1], Limb - 1 - x[2], Limb - 1 - x[3],
             Limb - 1 - x[4]>>, DurOne)

DurIsNeg(x) == x[4] >= Limb \div 2

\* x < y, both read as unsigned 64-bit numbers.
DurBelow(x, y) ==
    \/ x[4] < y[4]
    \/ x[4] = y[4] /\ x[3] < y[3]
    \/ x[4] = y[4] /\ x[3] = y[3] /\ x[2] < y[2]
    \/ x[4] = y[4] /\ x[3] = y[3] /\ x[2] = y[2] /\ x[1] < y[1]

\* x < y on int64.
DurLess(x, y) ==
    IF DurIsNeg(x) # DurIsNeg(y) THEN DurIsNeg(x) ELSE DurBelow(x, y)

\* Byte i (0..7) of x.
DurByte(x, i) == (x[(i \div 2) + 1] \div (IF i % 2 = 0 THEN 1 ELSE 256)) % 256

\* The sum of the products of bytes of x and y that weigh 256^c.
RECURSIVE DurColumn(_, _, _, _)
DurColumn(x, y, c, i) ==
    IF i > c THEN 0
    ELSE DurByte(x, i) * DurByte(y, c - i) + DurColumn(x, y, c, i + 1)

\* x * y on int64 (wraps): the low 8 bytes of the product.
DurMul(x, y) ==
    LET t0 == DurColumn(x, y, 0, 0)
        t1 == DurColumn(x, y, 1, 0) + (t0 \div 256)
        t2 == DurColumn(x, y, 2, 0) + (t1 \div 256)
        t3 == DurColumn(x, y, 3, 0) + (t2 \div 256)
        t4 == DurColumn(x, y, 4, 0) + (t3 \div 256)
        t5 == DurColumn(x, y, 5, 0) + (t4 \div 256)
        t6 == DurColumn(x, y, 6, 0) + (t5 \div 256)
        t7 == DurColumn(x, y, 7, 0) + (t6 \div 256)
    IN  <<(t0 % 256) + 256 * (t1 % 256), (t2 % 256) + 256 * (t3 % 256),
          (t4 % 256) + 256 * (t5 % 256), (t6 % 256) + 256 * (t7 % 256)>>

\* Limb i of x, 0 outside 1..4.
DurLimb(x, i) == IF i \in 1..4 THEN x[i] ELSE 0

\* x << k on int64, 0 <= k < 64.
DurShl(x, k) ==
    LET a == k \div 16
        m == 2 ^ (k % 16)
    IN  [j \in 1..4 |->
            ((DurLimb(x, j - a) * m) % Limb)
                + ((DurLimb(x, j - a - 1) * m) \div Limb)]

\* time.Duration(1 << uint(k)): a shift by 64 or more gives 0.
ShiftOne(k) == IF k >= 64 THEN DurZero ELSE DurShl(DurOne, k)

\* The unsigned 64-bit number x divided by c, 0 < c < 2^14, rounded down.
DurDiv(x, c) ==
    LET t4 == x[4]
        t3 == (t4 % c) * Limb + x[3]
        t2 == (t3 % c) * Limb + x[2]
        t1 == (t2 % c) * Limb + x[1]
    IN  <<t1 \div c, t2 \div c, t3 \div c, t4 \div c>>

\* time.Duration(float64(d) * f), |f| = 1/den or 0, sgn its sign: the
\* product is truncated toward zero.
DurScale(d, sgn, den) ==
    LET mag == DurDiv(IF DurIsNeg(d) THEN DurNeg(d) ELSE d, den) IN
    IF sgn = 0 THEN DurZero
    ELSE IF (sgn < 0) = DurIsNeg(d) THEN mag ELSE DurNeg(mag)

\* 100 * time.Millisecond and 30 * time.Second
DefaultBaseDelay == DurOf(100000000)
DefaultMaxDelay == DurMul(DurOf(1000000000), DurOf(30))

\* cfg.ReconnectBaseDelay and cfg.ReconnectMaxDelay: unset (0), or 3 ns and
\* 1 s.
BaseDelays == {DurZero, DurOf(3)}
MaxDelays == {DurZero, DurOf(1000000000)}

\* rand.Float64()*2 - 1, a number of [-1, 1): its sign and the inverse of
\* its magnitude.
JitterDraws == {<<-1, 1>>, <<-1, 2>>, <<0, 1>>, <<1, 2>>}

\* Manager.calculateBackoff(attempt), with the random number drawn.
calculateBackoff(cfgBase, cfgMax, attempt, draw) ==
    LET base == IF cfgBase = DurZero THEN DefaultBaseDelay ELSE cfgBase
        max == IF cfgMax = DurZero THEN DefaultMaxDelay ELSE cfgMax
        raw == DurMul(base, ShiftOne(attempt - 1))
        delay == IF DurLess(max, raw) THEN max ELSE raw
        jitter == DurScale(delay, draw[1], 10 * draw[2])
    IN  DurAdd(delay, jitter)

BackoffInit(bases, maxes) ==
    \E b \in bases, m \in maxes :
        backoff = [base |-> b, max |-> m, attempt |-> 0, delay |-> DurZero]

\* runStream after a failed connection: stream.ReconnectCount++, then
\* delay := m.calculateBackoff(stream.ReconnectCount).
BackoffAfterFailure(bound) ==
    /\ backoff.attempt < bound
    /\ \E draw \in JitterDraws :
          backoff' = [backoff EXCEPT
                         !.attempt = @ + 1,
                         !.delay = calculateBackoff(backoff.base, backoff.max,
                                                    backoff.attempt + 1, draw)]
    /\ UNCHANGED <<gateways, activeGateway, reconnecting, fpc, floc, healthy,
                   hnow, startRet>>

-----------------------------------------------------------------------------
(***************************************************************************)
(* Upstream manager: gateways, failover and the health-check loop          *)
(* (unnamed/part_002).  A gateway is known by its priority; the active     *)
(* connection by the index (from 1) of its gateway in Manager.gateways.    *)
(***************************************************************************)
\* The goroutines that call failover, and the health-check loop.
FoProcs == {"f1", "f2"}
HealthLoop == "hc"
MgrProcs == FoProcs \cup {HealthLoop}

NoGateway == [index |-> 0, lastPing |-> 0]
NoFLoc == [i |-> 0, tried |-> 0, ret |-> "-"]

RECURSIVE Perms(_)
Perms(S) ==
    IF S = {} THEN {<<>>}
    ELSE UNION {{<<x>> \o q : q \in Perms(S \ {x})} : x \in S}

\* cfg.Gateways: up to n gateways of priorities 1..n, in any order.
GatewayLists(n) == UNION {Perms(1..k) : k \in 0..n}

MgrInitWith(n, bases, maxes) ==
    /\ BackoffInit(bases, maxes)
    /\ gateways \in GatewayLists(n)
    /\ activeGateway = NoGateway
    /\ reconnecting = FALSE
    /\ fpc = [p \in MgrProcs |-> "idle"]
    /\ floc = [p \in MgrProcs |-> NoFLoc]
    /\ healthy = {}
    /\ hnow = 0
    /\ startRet = "-"

MgrInit == MgrInitWith(0, {DurZero}, {DurZero})

\* One pass of the inner loop of sortGatewaysByPriority over g[1..n].
RECURSIVE BubblePass(_, _, _)
BubblePass(g, j, n) ==
    IF j >= n THEN g
    ELSE BubblePass(IF g[j] > g[j + 1]
                    THEN [g EXCEPT ![j] = g[j + 1], ![j + 1] = g[j]]
                    ELSE g, j + 1, n)

RECURSIVE BubbleFrom(_, _)
BubbleFrom(g, i) ==
    IF i >= Len(g) - 1 THEN g
    ELSE BubbleFrom(BubblePass(g, 1, Len(g) - i), i + 1)

sortGatewaysByPriority(g) == BubbleFrom(g, 0)

\* connectToGateway(index): the connection it leaves in m.activeGateway.
\* It fails only for an index out of range.
connectToGateway(i) == [index |-> i, lastPing |-> hnow]

\* Manager.Start: no gateway is an error; otherwise the gateways are
\* sorted, the first one is connected and the health-check loop is started.
MgrStart ==
    /\ startRet = "-"
    /\ IF Len(gateways) = 0
       THEN /\ startRet' = "no gateways configured"
            /\ UNCHANGED <<gateways, activeGateway, fpc, healthy>>
       ELSE /\ gateways' = sortGatewaysByPriority(gateways)
            /\ activeGateway' = connectToGateway(1)
            /\ fpc' = [fpc EXCEPT ![HealthLoop] = "wait"]
            /\ healthy' = 1..Len(gateways)
            /\ startRet' = "nil"
    /\ UNCHANGED <<backoff, reconnecting, floc, hnow>>

\* A goroutine calls m.failover().
FailoverCall(p) ==
    /\ p \in FoProcs
    /\ startRet # "-"
    /\ fpc[p] = "idle"
    /\ fpc' = [fpc EXCEPT ![p] = "cas"]
    /\ floc' = [floc EXCEPT ![p] = NoFLoc]
    /\ UNCHANGED <<backoff, gateways, activeGateway, reconnecting, healthy,
                   hnow, startRet>>

\* Where a call of failover returns to.
AfterFailover(p) == IF p = HealthLoop THEN "wait" ELSE "idle"

\* m.reconnecting.CompareAndSwap(false, true) succeeds.
CasSucceedsAlways(flag) == TRUE
CasSucceeds(flag) == flag = FALSE

\* failover: `if !m.reconnecting.CompareAndSwap(false, true) { return nil }`
FailoverCas(p) ==
    /\ fpc[p] = "cas"
    /\ IF CasSucceeds(reconnecting)
       THEN /\ reconnecting' = TRUE
            /\ fpc' = [fpc EXCEPT ![p] = "loop"]
            /\ floc' = [floc EXCEPT ![p].i = 1]
       ELSE /\ fpc' = [fpc EXCEPT ![p] = AfterFailover(p)]
            /\ floc' = [floc EXCEPT ![p].ret = "skipped"]
            /\ UNCHANGED reconnecting
    /\ UNCHANGED <<backoff, gateways, activeGateway, healthy, hnow, startRet>>

\* failover: one turn of `for i := range m.gateways`, which returns nil at
\* the first gateway that connects, or the end of the loop.
FailoverTry(p) ==
    /\ fpc[p] = "loop"
    /\ IF floc[p].i <= Len(gateways)
       THEN /\ activeGateway' = connectToGateway(floc[p].i)
            /\ floc' = [floc EXCEPT ![p].tried = @ + 1, ![p].ret = "nil"]
       ELSE /\ floc' = [floc EXCEPT ![p].ret = "all gateways failed"]
            /\ UNCHANGED activeGateway
    /\ fpc' = [fpc EXCEPT ![p] = "store"]
    /\ UNCHANGED <<backoff, gateways, reconnecting, healthy, hnow, startRet>>

\* failover: `defer m.reconnecting.Store(false)`, run at the return.
FailoverStore(p) ==
    /\ fpc[p] = "store"
    /\ reconnecting' = FALSE
    /\ fpc' = [fpc EXCEPT ![p] = AfterFailover(p)]
    /\ UNCHANGED <<backoff, gateways, activeGateway, floc, healthy, hnow,
                   startRet>>

\* healthCheckLoop, `case <-ticker.C`: performHealthCheck.
HealthTick ==
    /\ fpc[HealthLoop] = "wait"
    /\ IF activeGateway.index = 0
       THEN /\ fpc' = [fpc EXCEPT ![HealthLoop] = "cas"]
            /\ floc' = [floc EXCEPT ![HealthLoop] = NoFLoc]
            /\ UNCHANGED activeGateway
       ELSE /\ activeGateway' = [activeGateway EXCEPT !.lastPing = hnow]
            /\ UNCHANGED <<fpc, floc>>
    /\ UNCHANGED <<backoff, gateways, reconnecting, healthy, hnow, startRet>>

\* healthCheckLoop, `case <-m.ctx.Done(): return`
HealthLoopExit ==
    /\ fpc[HealthLoop] = "wait"
    /\ ctxDone
    /\ fpc' = [fpc EXCEPT ![HealthLoop] = "done"]
    /\ UNCHANGED <<backoff, gateways, activeGateway, reconnecting, floc,
                   healthy, hnow, startRet>>

\* The environment: gateway g stops answering.
GatewayDown(g) ==
    /\ g \in healthy
    /\ healthy' = healthy \ {g}
    /\ UNCHANGED <<backoff, gateways, activeGateway, reconnecting, fpc, floc,
                   hnow, startRet>>

MgrTick(bound) ==
    /\ hnow < bound
    /\ hnow' = hnow + 1
    /\ UNCHANGED <<backoff, gateways, activeGateway, reconnecting, fpc, floc,
                   healthy, startRet>>

-----------------------------------------------------------------------------
(***************************************************************************)
(* Authentication service (relay/internal/api/server.go, package auth;     *)
(* models.AuthContext in unnamed/part_003).  The repository is the table   *)
(* queryAuthContext reads, keyed by key hash.  getFromRedis returns no     *)
(* record and putToRedis stores none, so the Redis tier holds nothing.     *)
(***************************************************************************)
\* The goroutines that call Authenticate (one request each at a time).
AuthProcs == {"a1", "a2"}
\* The credentials presented: none, or the API key "k1".
AuthCreds == {"", "k1"}
\* hashAPIKey: hex(SHA-256(apiKey)), written as a token per key.
hashAPIKey(k) == IF k = "k1" THEN "h1" ELSE "h0"
AuthHashes == {"h1"}

NoRow == [tenant |-> "-", key |-> "-", exp |-> 0]
\* The rows of a key: tenant status, key status, expires_at (0: NULL).
AuthRows ==
    [tenant : {"active", "suspended", "deleted"},
     key : {"active", "revoked", "expired"},
     exp : {0, 1}]

\* An AuthContext: the row it was read from, CachedAt, and (history) whether
\* it was read from the repository after the last InvalidateCache.
NoAuth == [tenant |-> "-", key |-> "-", exp |-> 0, cachedAt |-> 0,
           fresh |-> FALSE]
AuthOf(row) == [tenant |-> row.tenant, key |-> row.key, exp |-> row.exp,
                cachedAt |-> 0, fresh |-> TRUE]

NoALoc == [cred |-> "", rec |-> NoAuth, ret |-> "-", hit |-> FALSE,
           touched |-> FALSE, put |-> FALSE, early |-> FALSE, at |-> 0,
           resp |-> "-"]

AuthInitWith(ttls, rows) ==
    /\ cacheTTL \in ttls
    /\ authCache = [h \in AuthHashes |-> NoAuth]
    /\ repo \in [AuthHashes -> rows]
    /\ repoUp = TRUE
    /\ anow = 0
    /\ apc = [p \in AuthProcs |-> "idle"]
    /\ aloc = [p \in AuthProcs |-> NoALoc]
    /\ lastUsed = [pending |-> FALSE, at |-> 0]

AuthInit == AuthInitWith({1}, {NoRow})

\* No connection has been accepted: Handle has not been called.
NoWs == [in |-> "none", sym |-> "-", out |-> "none", conn |-> << >>,
         asked |-> {}, cached |-> {}]
WsInit == ws = [s \in SubIds |-> NoWs]

-----------------------------------------------------------------------------
(***************************************************************************)
(* Usage collector (cache.go, Collector)                                   *)
(***************************************************************************)
\* rune(id): the conversion of the int64 to int32; it keeps
\* every value below 2^31, and all ids drawn are.
Rune(id) == id

\* string(r) of a rune r: the UTF-8 encoding of the code point r; a value
\* that is no valid code point (negative, above U+10FFFF, or a surrogate)
\* gives "\uFFFD". A one-rune string is written as its code point.
StringOfRune(r) ==
    IF r < 0 \/ r > 1114111 \/ (55296 <= r /\ r <= 57343) THEN 65533 ELSE r

\* The (tenant, key) pairs usage is recorded for, the counters of a
\* UsageBuffer, the goroutines that record, and the one that flushes.
UsagePairs == {<<1, 1>>, <<1, 55296>>, <<1, 55297>>}
UsageKinds == {"requests", "messages", "errors"}
Recorders == {"r1"}
Flusher == "fl"

\* Collector.bufferKey: string(rune(tenantID)) + ":" + string(rune(apiKeyID))
bufferKey(tenantID, apiKeyID) ==
    <<StringOfRune(Rune(tenantID)), StringOfRune(Rune(apiKeyID))>>

UsageKeys == {bufferKey(x[1], x[2]) : x \in UsagePairs}
NoCounts == [k \in UsageKinds |-> 0]
NoULocal == [pair |-> <<0, 0>>, kind |-> "-", buf |-> 0, set |-> {}]

\* NewCollector
UsageInit ==
    collector = [buffer |-> [k \in UsageKeys |-> 0],
                 bufs |-> << >>,
                 pc |-> [p \in Recorders \cup {Flusher} |-> "idle"],
                 loc |-> [p \in Recorders \cup {Flusher} |-> NoULocal],
                 made |-> [x \in UsagePairs |-> NoCounts],
                 flushed |-> [x \in UsagePairs |-> NoCounts]]

\* History: the Record calls started so far.
RECURSIVE RecordsOf(_, _)
RecordsOf(made, pairs) ==
    IF pairs = {} THEN 0
    ELSE LET x == CHOOSE y \in pairs : TRUE IN
         made[x]["requests"] + made[x]["messages"] + made[x]["errors"]
             + RecordsOf(made, pairs \ {x})

RecordsStarted ==
    RecordsOf(collector.made, UsagePairs)
        + Cardinality({p \in Recorders : collector.pc[p] # "idle"})

\* RecordRequest / RecordMessage / RecordError(tenantID, apiKeyID), the
\* call; kind names the counter.
RecordCall(p, pair, kind, bound) ==
    /\ collector.pc[p] = "idle"
    /\ RecordsStarted < bound
    /\ collector' = [collector EXCEPT
           !.pc[p] = "read",
           !.loc[p] = [NoULocal EXCEPT !.pair = pair, !.kind = kind]]

\* getOrCreateBuffer: the lookup under c.mu.RLock()
UsageRead(p) ==
    /\ collector.pc[p] = "read"
    /\ LET key == bufferKey(collector.loc[p].pair[1], collector.loc[p].pair[2])
           a == collector.buffer[key]
       IN collector' = [collector EXCEPT
              !.pc[p] = IF a # 0 THEN "add" ELSE "write",
              !.loc[p].buf = a]

\* getOrCreateBuffer: under c.mu.Lock(), the second lookup and the new
\* UsageBuffer{TenantID, APIKeyID}.
UsageWrite(p) ==
    /\ collector.pc[p] = "write"
    /\ LET key == bufferKey(collector.loc[p].pair[1], collector.loc[p].pair[2])
           a == collector.buffer[key]
           new == Len(collector.bufs) + 1
       IN IF a # 0
          THEN collector' = [collector EXCEPT !.pc[p] = "add",
                                              !.loc[p].buf = a]
          ELSE collector' = [collector EXCEPT
                  !.pc[p] = "add",
                  !.loc[p].buf = new,
                  !.buffer[key] = new,
                  !.bufs = Append(@, [tenant |-> collector.loc[p].pair[1],
                                      key |-> collector.loc[p].pair[2],
                                      counts |-> NoCounts])]

\* buf.Requests.Add(1) (Messages, Errors), and the return.
UsageAdd(p) ==
    /\ collector.pc[p] = "add"
    /\ LET l == collector.loc[p] IN
       collector' = [collector EXCEPT
           !.bufs[l.buf].counts[l.kind] = @ + 1,
           !.made[l.pair][l.kind] = @ + 1,
           !.pc[p] = "idle",
           !.loc[p] = NoULocal]

\* Flush: under c.mu.Lock(), `buffers := c.buffer; c.buffer = make(...)`,
\* and `if len(buffers) == 0 { return }`.
FlushSwap ==
    /\ collector.pc[Flusher] = "idle"
    /\ LET set == {collector.buffer[k] : k \in UsageKeys} \ {0} IN
       collector' = [collector EXCEPT
           !.buffer = [k \in UsageKeys |-> 0],
           !.pc[Flusher] = IF set = {} THEN "idle" ELSE "drain",
           !.loc[Flusher].set = set]

\* Flush: one round of `for _, buf := range buffers`: the Swap(0) of the
\* counters and upsertUsage(buf.TenantID, buf.APIKeyID, ...), which adds
\* them to the row of the day; after the last buffer Flush returns.
FlushDrain ==
    /\ collector.pc[Flusher] = "drain"
    /\ \E a \in collector.loc[Flusher].set :
          LET b == collector.bufs[a]
              rest == collector.loc[Flusher].set \ {a}
          IN collector' = [collector EXCEPT
                 !.bufs[a].counts = NoCounts,
                 !.flushed[<<b.tenant, b.key>>] =
                     [k \in UsageKinds |-> @[k] + b.counts[k]],
                 !.loc[Flusher].set = rest,
                 !.pc[Flusher] = IF rest = {} THEN "idle" ELSE "drain"]

\* AuthContext.IsValid at time t.
IsValid(ac, t) ==
    /\ ac.tenant = "active"
    /\ ac.key = "active"
    /\ ~(ac.exp # 0 /\ ac.exp < t)

\* Authenticate: the error returned for a record that is not valid.
InvalidErrorRevokedFirst(ac, t) ==
    IF ac.key = "revoked" THEN "ErrRevokedAPIKey"
    ELSE IF ac.tenant = "suspended" THEN "ErrSuspendedTenant"
    ELSE IF ac.key = "expired" \/ (ac.exp # 0 /\ ac.exp < t)
         THEN "ErrExpiredAPIKey"
    ELSE "ErrInvalidAPIKey"

InvalidError(ac, t) ==
    IF ac.tenant = "suspended" THEN "ErrSuspendedTenant"
    ELSE IF ac.key = "revoked" THEN "ErrRevokedAPIKey"
    ELSE IF ac.key = "expired" \/ (ac.exp # 0 /\ ac.exp < t)
         THEN "ErrExpiredAPIKey"
    ELSE "ErrInvalidAPIKey"

\* getFromCache: the entry, unless there is none or it is older than the
\* TTL (`time.Since(authCtx.CachedAt) > s.cacheTTL`).
ExpiredInCache(ac, t) == t - ac.cachedAt > cacheTTL

getFromCache(h) ==
    IF authCache[h] = NoAuth \/ ExpiredInCache(authCache[h], anow)
    THEN NoAuth
    ELSE authCache[h]

\* What a step of the service leaves alone, but for the parts named.
AuthUnchanged(except) ==
    /\ IF "cache" \in except THEN TRUE ELSE UNCHANGED authCache
    /\ IF "repo" \in except THEN TRUE ELSE UNCHANGED <<repo, repoUp>>
    /\ IF "now" \in except THEN TRUE ELSE UNCHANGED anow
    /\ IF "used" \in except THEN TRUE ELSE UNCHANGED lastUsed
    /\ UNCHANGED cacheTTL

AuthDone(p, ret) ==
    /\ apc' = [apc EXCEPT ![p] = "done"]
    /\ aloc' = [aloc EXCEPT ![p].ret = ret, ![p].at = anow]

\* Authenticate(apiKey): the empty key is refused before anything is read.
AuthCall(p, cred) ==
    /\ apc[p] = "idle"
    /\ IF cred = ""
       THEN /\ apc' = [apc EXCEPT ![p] = "done"]
            /\ aloc' = [aloc EXCEPT ![p] = [NoALoc EXCEPT
                           !.ret = "ErrMissingAPIKey", !.at = anow]]
       ELSE /\ apc' = [apc EXCEPT ![p] = "cache"]
            /\ aloc' = [aloc EXCEPT ![p] = [NoALoc EXCEPT !.cred = cred]]
    /\ AuthUnchanged({})

\* Authenticate: getFromCache and, for an entry, IsValid.
AuthFromCache(p) ==
    /\ apc[p] = "cache"
    /\ LET ac == getFromCache(hashAPIKey(aloc[p].cred)) IN
       IF ac = NoAuth
       THEN /\ apc' = [apc EXCEPT ![p] = "query"]
            /\ aloc' = [aloc EXCEPT ![p].touched = TRUE]
       ELSE IF IsValid(ac, anow)
       THEN /\ apc' = [apc EXCEPT ![p] = "done"]
            /\ aloc' = [aloc EXCEPT ![p].touched = TRUE, ![p].rec = ac,
                                    ![p].hit = TRUE, ![p].ret = "nil",
                                    ![p].at = anow]
       ELSE /\ apc' = [apc EXCEPT ![p] = "remove"]
            /\ aloc' = [aloc EXCEPT ![p].touched = TRUE]
    /\ AuthUnchanged({})

\* Authenticate: removeFromCache of an entry found invalid.
AuthRemove(p) ==
    /\ apc[p] = "remove"
    /\ authCache' = [authCache EXCEPT ![hashAPIKey(aloc[p].cred)] = NoAuth]
    /\ apc' = [apc EXCEPT ![p] = "query"]
    /\ UNCHANGED aloc
    /\ AuthUnchanged({"cache"})

\* Authenticate: queryAuthContext and the handling of its error.
AuthQuery(p) ==
    /\ apc[p] = "query"
    /\ LET row == repo[hashAPIKey(aloc[p].cred)] IN
       IF ~repoUp
       THEN AuthDone(p, "failed to query auth context")
       ELSE IF row = NoRow
       THEN AuthDone(p, "ErrInvalidAPIKey")
       ELSE /\ apc' = [apc EXCEPT ![p] = "validate"]
            /\ aloc' = [aloc EXCEPT ![p].rec = AuthOf(row)]
    /\ AuthUnchanged({})

\* Authenticate: IsValid of the record read, the error for an invalid one,
\* CachedAt = time.Now() for a valid one.
AuthValidate(p) ==
    /\ apc[p] = "validate"
    /\ IF ~IsValid(aloc[p].rec, anow)
       THEN AuthDone(p, InvalidError(aloc[p].rec, anow))
       ELSE /\ apc' = [apc EXCEPT ![p] = "put"]
            /\ aloc' = [aloc EXCEPT ![p].rec.cachedAt = anow]
    /\ AuthUnchanged({})

\* Authenticate: putToCache, `go s.updateLastUsed(...)`, return.
AuthPut(p) ==
    /\ apc[p] = "put"
    /\ authCache' = [authCache EXCEPT
                        ![hashAPIKey(aloc[p].cred)] = aloc[p].rec]
    /\ lastUsed' = [lastUsed EXCEPT !.pending = TRUE]
    /\ apc' = [apc EXCEPT ![p] = "done"]
    /\ aloc' = [aloc EXCEPT ![p].put = TRUE, ![p].ret = "nil",
                            ![p].at = anow]
    /\ AuthUnchanged({"cache", "used"})

\* authMiddleware: the code of the response for the error of Authenticate
\* ("-": no error, the request goes on).
ResponseCode(err) ==
    IF err = "nil" THEN "-"
    ELSE IF err = "ErrSuspendedTenant" THEN "AUTH_SUSPENDED_TENANT"
    ELSE IF err = "ErrRevokedAPIKey" THEN "AUTH_REVOKED_KEY"
    ELSE IF err = "ErrExpiredAPIKey" THEN "AUTH_EXPIRED_KEY"
    ELSE "AUTH_INVALID_KEY"

\* authMiddleware after Authenticate has returned.
AuthRespond(p) ==
    /\ apc[p] = "done"
    /\ apc' = [apc EXCEPT ![p] = "idle"]
    /\ aloc' = [aloc EXCEPT ![p].resp = ResponseCode(aloc[p].ret)]
    /\ AuthUnchanged({})

\* updateLastUsed, run in its own goroutine: the error of ExecContext is
\* dropped.
UpdateLastUsed ==
    /\ lastUsed.pending
    /\ lastUsed' = [pending |-> FALSE,
                    at |-> IF repoUp THEN anow ELSE lastUsed.at]
    /\ UNCHANGED <<apc, aloc>>
    /\ AuthUnchanged({"used"})

\* InvalidateCache(apiKey): removeFromCache.  (History: the records read
\* before it are no longer fresh, the calls under way began before it.)
InvalidateCache(cred) ==
    /\ authCache' = [authCache EXCEPT ![hashAPIKey(cred)] = NoAuth]
    /\ aloc' = [p \in AuthProcs |->
                   [aloc[p] EXCEPT !.rec.fresh = FALSE,
                                   !.early = (apc[p] # "idle")]]
    /\ UNCHANGED apc
    /\ AuthUnchanged({"cache"})

\* cleanupCache: every entry older than the TTL is deleted.
CleanupCache ==
    /\ authCache' = [h \in AuthHashes |->
                        IF authCache[h] # NoAuth
                               /\ anow - authCache[h].cachedAt > cacheTTL
                        THEN NoAuth ELSE authCache[h]]
    /\ authCache' # authCache
    /\ UNCHANGED <<apc, aloc>>
    /\ AuthUnchanged({"cache"})

\* The environment: the key is revoked in the repository.
RepoRevoke(h) ==
    /\ repo[h] # NoRow /\ repo[h].key = "active"
    /\ repo' = [repo EXCEPT ![h].key = "revoked"]
    /\ UNCHANGED <<repoUp, apc, aloc>>
    /\ AuthUnchanged({"repo"})

\* The environment: the connection to the repository fails, or recovers.
RepoFlip ==
    /\ repoUp' = ~repoUp
    /\ UNCHANGED <<repo, apc, aloc>>
    /\ AuthUnchanged({"repo"})

AuthTick(bound) ==
    /\ anow < bound
    /\ anow' = anow + 1
    /\ UNCHANGED <<apc, aloc>>
    /\ AuthUnchanged({"now"})

-----------------------------------------------------------------------------
(***************************************************************************)
(* Specifications of the hub                                               *)
(***************************************************************************)




\* Concurrent hub: a stream worker publishing, a client subscribing and
\* unsubscribing its subscriber on both symbols, the zombie sweeper and the
\* reader, all interleaved.
Init == HubInitWith(1, 0) /\ LimInitWith(2, 4, 1) /\ CacheInitWith(1, 1) /\ UpInit /\ MgrInit /\ AuthInit /\ WsInit /\ UsageInit

Next ==
    \/ (\E s \in SubIds : CreateSubscriber(s)) /\ UNCHANGED nonHubVars
    \/ (\E s \in SubIds, sym \in Symbols : SubscribeCall(s, sym)) /\ UNCHANGED nonHubVars
    \/ (\E p \in SubIds : SubTopic(p)) /\ UNCHANGED nonHubVars
    \/ (\E p \in SubIds : SubAdd(p)) /\ UNCHANGED nonHubVars
    \/ (\E p \in SubIds : SubCount(p)) /\ UNCHANGED nonHubVars
    \/ (\E s \in SubIds, sym \in Symbols : UnsubscribeCall(s, sym)) /\ UNCHANGED nonHubVars
    \/ (\E p \in SubIds \cup Publishers : UnsubLookup(p)) /\ UNCHANGED nonHubVars
    \/ (\E p \in SubIds \cup Publishers : UnsubLock(p)) /\ UNCHANGED nonHubVars
    \/ (\E p \in SubIds \cup Publishers : UnsubClose(p)) /\ UNCHANGED nonHubVars
    \/ (\E p \in SubIds \cup Publishers : UnsubDelete(p)) /\ UNCHANGED nonHubVars
    \/ (\E p \in Publishers : PublishCall(p, MaxPub)) /\ UNCHANGED nonHubVars
    \/ (\E p \in Publishers : PubLookup(p)) /\ UNCHANGED nonHubVars
    \/ (\E p \in Publishers : PubSnapshot(p)) /\ UNCHANGED nonHubVars
    \/ (\E p \in Publishers : PubNext(p)) /\ UNCHANGED nonHubVars
    \/ (\E p \in Publishers : PubSend(p)) /\ UNCHANGED nonHubVars
    \/ ZombieCall /\ UNCHANGED nonHubVars
    \/ ZombieNext /\ UNCHANGED nonHubVars
    \/ ZombieScan /\ UNCHANGED nonHubVars
    \/ ZombieClose /\ UNCHANGED nonHubVars
    \/ (\E s \in SubIds : Dequeue(s)) /\ UNCHANGED nonHubVars
    \/ Tick /\ UNCHANGED nonHubVars

Spec == Init /\ [][Next]_vars

\* Sequential publishing: Publish calls issued one after another on symbol
\* A by its stream worker, for every buffer size and threshold drawn, while
\* clients subscribe and readers dequeue (or do not); the only way out of a
\* topic is the slow-consumer eviction.
SeqInit ==
    /\ \E b \in 1..SeqMaxBuffer, t \in 0..SeqMaxThreshold : HubInitWith(b, t)
    /\ LimInitWith(2, 4, 1)
    /\ CacheInitWith(1, 1)
    /\ UpInit /\ MgrInit /\ AuthInit /\ WsInit /\ UsageInit

SeqNext ==
    \/ (\E s \in SubIds : CreateSubscriber(s)) /\ UNCHANGED nonHubVars
    \/ (\E s \in SubIds : SubscribeCall(s, "A")) /\ UNCHANGED nonHubVars
    \/ (\E p \in SubIds : SubTopic(p)) /\ UNCHANGED nonHubVars
    \/ (\E p \in SubIds : SubAdd(p)) /\ UNCHANGED nonHubVars
    \/ (\E p \in SubIds : SubCount(p)) /\ UNCHANGED nonHubVars
    \/ (\E p \in Publishers : PublishCall(p, SeqMaxPub)) /\ UNCHANGED nonHubVars
    \/ (\E p \in Publishers : PubLookup(p)) /\ UNCHANGED nonHubVars
    \/ (\E p \in Publishers : PubSnapshot(p)) /\ UNCHANGED nonHubVars
    \/ (\E p \in Publishers : PubNext(p)) /\ UNCHANGED nonHubVars
    \/ (\E p \in Publishers : PubSend(p)) /\ UNCHANGED nonHubVars
    \/ (\E p \in Publishers : UnsubLookup(p)) /\ UNCHANGED nonHubVars
    \/ (\E p \in Publishers : UnsubLock(p)) /\ UNCHANGED nonHubVars
    \/ (\E p \in Publishers : UnsubClose(p)) /\ UNCHANGED nonHubVars
    \/ (\E p \in Publishers : UnsubDelete(p)) /\ UNCHANGED nonHubVars
    \/ (\E s \in SubIds : Dequeue(s)) /\ UNCHANGED nonHubVars

SpecSeq == SeqInit /\ [][SeqNext]_vars

-----------------------------------------------------------------------------
(***************************************************************************)
(* Specifications of the rate limiter                                      *)
(***************************************************************************)

\* Concurrent limiter: two goroutines calling Allow, AcquireStream,
\* ReleaseStream and SetLimit on one key while the GC pass runs and time
\* passes, in steps that take an untouched entry past the GC threshold.
\* default_rps 2, burst_multiplier 2.0, cleanup_interval one tick.
LimInit == HubInitWith(1, 0) /\ LimInitWith(2, 4, 1) /\ CacheInitWith(1, 1) /\ UpInit /\ MgrInit /\ AuthInit /\ WsInit /\ UsageInit

LimNext ==
    \/ (\E p \in LimProcs, k \in LimKeys : AllowCall(p, k, 1, MaxAllows))
          /\ UNCHANGED nonLimVars
    \/ (\E p \in LimProcs, k \in LimKeys, m \in 1..MaxStreamsArg :
            AcquireCall(p, k, m)) /\ UNCHANGED nonLimVars
    \/ (\E p \in LimProcs, k \in LimKeys : ReleaseCall(p, k))
          /\ UNCHANGED nonLimVars
    \/ (\E p \in LimProcs, k \in LimKeys, m \in 1..MaxStreamsArg :
            SetLimit(p, k, defaultRPS, m))
          /\ UNCHANGED nonLimVars
    \/ (\E p \in LimProcs : GocRead(p)) /\ UNCHANGED nonLimVars
    \/ (\E p \in LimProcs : GocWrite(p)) /\ UNCHANGED nonLimVars
    \/ (\E p \in LimProcs : DoAllow(p)) /\ UNCHANGED nonLimVars
    \/ (\E p \in LimProcs : DoAcquire(p)) /\ UNCHANGED nonLimVars
    \/ (\E p \in LimProcs : RelLookup(p)) /\ UNCHANGED nonLimVars
    \/ (\E p \in LimProcs : RelDo(p)) /\ UNCHANGED nonLimVars
    \/ (\E p \in LimProcs : LimReturn(p)) /\ UNCHANGED nonLimVars
    \/ Cleanup /\ UNCHANGED nonLimVars
    \/ LimTick(2 * cleanupInterval + 1) /\ UNCHANGED nonLimVars

SpecLimiter == LimInit /\ [][LimNext]_vars

\* Token bucket of a fresh key: one goroutine calling Allow on one key, for
\* every default_rps and burst_multiplier drawn, while time passes.
BucketInit ==
    /\ HubInitWith(1, 0)
    /\ CacheInitWith(1, 1)
    /\ \E r \in 1..MaxRps, h \in 0..MaxHalves : LimInitWith(r, h, 1)
    /\ UpInit /\ MgrInit /\ AuthInit /\ WsInit /\ UsageInit

BucketNext ==
    \/ AllowCall("g1", "k1", 1, BucketMaxAllows) /\ UNCHANGED nonLimVars
    \/ GocRead("g1") /\ UNCHANGED nonLimVars
    \/ GocWrite("g1") /\ UNCHANGED nonLimVars
    \/ DoAllow("g1") /\ UNCHANGED nonLimVars
    \/ LimReturn("g1") /\ UNCHANGED nonLimVars
    \/ LimTick(1) /\ UNCHANGED nonLimVars

SpecBucket == BucketInit /\ [][BucketNext]_vars

\* Rate fairness: two goroutines calling Allow/AllowN on one key of rate 1
\* and burst 2 (default_rps 1, burst_multiplier 2.0) at any times, while
\* the GC pass runs (cleanup_interval one tick).
FairInit == HubInitWith(1, 0) /\ LimInitWith(1, 4, 1) /\ CacheInitWith(1, 1) /\ UpInit /\ MgrInit /\ AuthInit /\ WsInit /\ UsageInit

FairNext ==
    \/ (\E p \in LimProcs, n \in 1..defaultBurst :
            AllowCall(p, "k1", n, FairMaxAllows)) /\ UNCHANGED nonLimVars
    \/ (\E p \in LimProcs : GocRead(p)) /\ UNCHANGED nonLimVars
    \/ (\E p \in LimProcs : GocWrite(p)) /\ UNCHANGED nonLimVars
    \/ (\E p \in LimProcs : DoAllow(p)) /\ UNCHANGED nonLimVars
    \/ (\E p \in LimProcs : LimReturn(p)) /\ UNCHANGED nonLimVars
    \/ Cleanup /\ UNCHANGED nonLimVars
    \/ LimTick(1) /\ UNCHANGED nonLimVars

SpecFair == FairInit /\ [][FairNext]_vars

-----------------------------------------------------------------------------
(***************************************************************************)
(* Specifications of the cache                                             *)
(***************************************************************************)

\* Order books only: any depth, any sides, the callers keep no reference.
BookInit ==
    /\ HubInitWith(1, 0)
    /\ LimInitWith(2, 4, 1)
    /\ \E d \in 0..MaxDepth : CacheInitWith(d, 1)
    /\ UpInit /\ MgrInit /\ AuthInit /\ WsInit /\ UsageInit

BookNext ==
    \/ \E s \in Symbols, asks \in Sides(MaxLen), bids \in Sides(MaxLen) :
          UpdateOrderbook(s, cnow, 1, asks, bids, FALSE)
             /\ UNCHANGED nonCacheVars
    \/ \E s \in Symbols : GetOrderbook(s, FALSE) /\ UNCHANGED nonCacheVars

SpecBook == BookInit /\ [][BookNext]_vars


\* Aliasing: the callers keep the snapshots they pass to UpdateOrderbook
\* and the copies they get from GetOrderbook, and write to them (the price
\* 0 and the sequence 0, which no book carries).  Every snapshot is stamped
\* one tick in the past, so Cleanup(0) finds it stale.
AliasInit ==
    /\ HubInitWith(1, 0)
    /\ LimInitWith(2, 4, 1)
    /\ CacheInitWith(1, 1)
    /\ UpInit /\ MgrInit /\ AuthInit /\ WsInit /\ UsageInit

AliasNext ==
    \/ \E s \in Symbols, keep \in BOOLEAN :
          UpdateOrderbook(s, cnow - 1, 1, <<2>>, <<1>>, keep)
             /\ UNCHANGED nonCacheVars
    \/ \E s \in Symbols : GetOrderbook(s, TRUE) /\ UNCHANGED nonCacheVars
    \/ \E a \in args \cup {got[i] : i \in DOMAIN got} :
          Mutate(a, 0, 0) /\ UNCHANGED nonCacheVars
    \/ CacheCleanup(0) /\ UNCHANGED nonCacheVars

SpecAlias == AliasInit /\ [][AliasNext]_vars


\* Trade rings only: any capacity from 1, trades of both symbols, reads of
\* any count up to more than the capacity.
RingInit ==
    /\ HubInitWith(1, 0)
    /\ LimInitWith(2, 4, 1)
    /\ \E c \in 1..MaxCap : CacheInitWith(1, c)
    /\ UpInit /\ MgrInit /\ AuthInit /\ WsInit /\ UsageInit

RingNext ==
    \/ \E s \in Symbols : AddTrade(s, MaxTrades) /\ UNCHANGED nonCacheVars
    \/ \E s \in Symbols, n \in 0..(MaxCap + 1) :
          GetRecentTrades(s, n) /\ UNCHANGED nonCacheVars

SpecRing == RingInit /\ [][RingNext]_vars


\* Books and rings over time: snapshots stamped with the time of the call
\* and any sequence number, trades, the passing of time and Cleanup with
\* any threshold.
LayerInit ==
    /\ HubInitWith(1, 0)
    /\ LimInitWith(2, 4, 1)
    /\ CacheInitWith(1, 1)
    /\ UpInit /\ MgrInit /\ AuthInit /\ WsInit /\ UsageInit

LayerNext ==
    \/ \E s \in Symbols, seq \in 1..MaxSeqNo :
          UpdateOrderbook(s, cnow, seq, <<2>>, <<1>>, FALSE)
             /\ UNCHANGED nonCacheVars
    \/ \E s \in Symbols : AddTrade(s, LayerMaxTrades) /\ UNCHANGED nonCacheVars
    \/ \E thr \in 0..(MaxCacheNow - 1) :
          CacheCleanup(thr) /\ UNCHANGED nonCacheVars
    \/ CacheTick /\ UNCHANGED nonCacheVars

SpecLayer == LayerInit /\ [][LayerNext]_vars

-----------------------------------------------------------------------------
(***************************************************************************)
(* Specification of the upstream manager                                   *)
(***************************************************************************)

UpstreamInit ==
    /\ HubInitWith(1, 0)
    /\ LimInitWith(2, 4, 1)
    /\ CacheInitWith(1, 1)
    /\ UpInit /\ MgrInit /\ AuthInit /\ WsInit /\ UsageInit

UpstreamNext ==
    \/ \E p \in UpProcs, s \in UpSymbols :
          UpSubscribeCall(p, s) /\ UNCHANGED nonUpVars
    \/ \E p \in UpProcs, s \in UpSymbols :
          UpUnsubscribeCall(p, s) /\ UNCHANGED nonUpVars
    \/ \E p \in UpProcs : UpGetActiveCall(p) /\ UNCHANGED nonUpVars
    \/ \E p \in UpProcs : UpLock(p) /\ UNCHANGED nonUpVars
    \/ \E p \in UpProcs : UpSubRegister(p) /\ UNCHANGED nonUpVars
    \/ \E p \in UpProcs : UpSubmit(p) /\ UNCHANGED nonUpVars
    \/ \E p \in UpProcs : UpUnsubscribe(p) /\ UNCHANGED nonUpVars
    \/ \E p \in UpProcs : UpGetActive(p) /\ UNCHANGED nonUpVars
    \/ \E i \in StreamAddrs : WorkerConnect(i) /\ UNCHANGED nonUpVars
    \/ \E i \in StreamAddrs : WorkerExit(i) /\ UNCHANGED nonUpVars
    \/ \E i \in StreamAddrs : WorkerStreamDone(i) /\ UNCHANGED nonUpVars

\* A call in progress goes on: a caller waiting for streamsMu gets it when
\* it is free again and again (sync.Mutex hands the lock to a starving
\* waiter), a caller that can take its next step takes it, and a worker
\* whose context is cancelled returns.  Nobody has to begin a call.
UpstreamFair ==
    /\ \A p \in UpProcs :
          /\ SF_vars(UpLock(p) /\ UNCHANGED nonUpVars)
          /\ SF_vars(UpGetActive(p) /\ UNCHANGED nonUpVars)
          /\ WF_vars(UpSubRegister(p) /\ UNCHANGED nonUpVars)
          /\ WF_vars(UpSubmit(p) /\ UNCHANGED nonUpVars)
          /\ WF_vars(UpUnsubscribe(p) /\ UNCHANGED nonUpVars)
    /\ \A i \in StreamAddrs :
          /\ WF_vars(WorkerExit(i) /\ UNCHANGED nonUpVars)
          /\ WF_vars(WorkerStreamDone(i) /\ UNCHANGED nonUpVars)

SpecUpstream == UpstreamInit /\ [][UpstreamNext]_vars /\ UpstreamFair

\* The life of a stream: one symbol, a caller of Subscribe and Unsubscribe
\* and, concurrently, a caller of Stop, workers that deliver, fail, back
\* off and return.
StreamInit ==
    /\ HubInitWith(1, 0)
    /\ LimInitWith(2, 4, 1)
    /\ CacheInitWith(1, 1)
    /\ UpInit /\ MgrInit /\ AuthInit /\ WsInit /\ UsageInit

StreamNext ==
    \/ UpSubscribeCall("u1", 1) /\ UNCHANGED nonUpVars
    \/ UpUnsubscribeCall("u1", 1) /\ UNCHANGED nonUpVars
    \/ UpStopCall("u2") /\ UNCHANGED nonUpVars
    \/ \E p \in UpProcs : UpLock(p) /\ UNCHANGED nonUpVars
    \/ \E p \in UpProcs : UpSubRegister(p) /\ UNCHANGED nonUpVars
    \/ \E p \in UpProcs : UpSubmit(p) /\ UNCHANGED nonUpVars
    \/ \E p \in UpProcs : UpUnsubscribe(p) /\ UNCHANGED nonUpVars
    \/ \E p \in UpProcs : UpStopCancel(p) /\ UNCHANGED nonUpVars
    \/ \E p \in UpProcs : UpStopRelease(p) /\ UNCHANGED nonUpVars
    \/ \E p \in UpProcs : UpStopStreams(p) /\ UNCHANGED nonUpVars
    \/ \E i \in StreamAddrs : WorkerConnect(i) /\ UNCHANGED nonUpVars
    \/ \E i \in StreamAddrs : WorkerExit(i) /\ UNCHANGED nonUpVars
    \/ \E i \in StreamAddrs : WorkerData(i) /\ UNCHANGED nonUpVars
    \/ \E i \in StreamAddrs : WorkerStreamDone(i) /\ UNCHANGED nonUpVars
    \/ \E i \in StreamAddrs :
          WorkerFail(i, MaxReconnects) /\ UNCHANGED nonUpVars
    \/ \E i \in StreamAddrs : WorkerBackoffOver(i) /\ UNCHANGED nonUpVars
    \/ \E i \in StreamAddrs : WorkerBackoffCancelled(i) /\ UNCHANGED nonUpVars

\* The step a caller that holds the lock, or needs none, takes next.
CallerStep(p) ==
    \/ UpSubRegister(p)
    \/ UpSubmit(p)
    \/ UpUnsubscribe(p)
    \/ UpStopCancel(p)
    \/ UpStopRelease(p)
    \/ UpStopStreams(p)

\* The step a worker's select comes to take: ctx.Done once the context is
\* done, the backoff timer, the start of the connection.
WorkerStep(i) ==
    \/ WorkerConnect(i)
    \/ WorkerExit(i)
    \/ WorkerStreamDone(i)
    \/ WorkerBackoffOver(i)

\* A call in progress goes on (as in UpstreamFair) and a worker goes on.
StreamFair ==
    /\ \A p \in UpProcs :
          /\ SF_upVars(UpLock(p))
          /\ WF_upVars(CallerStep(p))
    /\ \A i \in StreamAddrs : WF_upVars(WorkerStep(i))

SpecStream == StreamInit /\ [][StreamNext]_vars /\ StreamFair

(***************************************************************************)
(* Specifications of the reconnect backoff and of the gateway failover     *)
(***************************************************************************)
\* The delays of the successive reconnects of one stream, for the default
\* and for configured base and maximum delays.
BackoffSpecInit ==
    /\ HubInitWith(1, 0) /\ LimInitWith(2, 4, 1) /\ CacheInitWith(1, 1)
    /\ UpInit
    /\ MgrInitWith(0, BaseDelays, MaxDelays)
    /\ AuthInit /\ WsInit /\ UsageInit

BackoffNext == BackoffAfterFailure(MaxAttempt) /\ UNCHANGED nonMgrVars

SpecBackoff == BackoffSpecInit /\ [][BackoffNext]_vars

\* Start, two goroutines that call failover, the health-check loop, gateways
\* that stop answering, and Stop.
FailoverInit ==
    /\ HubInitWith(1, 0) /\ LimInitWith(2, 4, 1) /\ CacheInitWith(1, 1)
    /\ UpInit
    /\ MgrInitWith(MaxGateways, {DurZero}, {DurZero})
    /\ AuthInit /\ WsInit /\ UsageInit

FailoverNext ==
    \/ MgrStart /\ UNCHANGED nonMgrVars
    \/ \E p \in FoProcs : FailoverCall(p) /\ UNCHANGED nonMgrVars
    \/ \E p \in MgrProcs : FailoverCas(p) /\ UNCHANGED nonMgrVars
    \/ \E p \in MgrProcs : FailoverTry(p) /\ UNCHANGED nonMgrVars
    \/ \E p \in MgrProcs : FailoverStore(p) /\ UNCHANGED nonMgrVars
    \/ HealthTick /\ UNCHANGED nonMgrVars
    \/ HealthLoopExit /\ UNCHANGED nonMgrVars
    \/ \E g \in 1..MaxGateways : GatewayDown(g) /\ UNCHANGED nonMgrVars
    \/ MgrTick(MaxHealthNow) /\ UNCHANGED nonMgrVars
    \/ UpStopCall("u2") /\ UNCHANGED nonUpVars
    \/ UpStopCancel("u2") /\ UNCHANGED nonUpVars
    \/ UpStopRelease("u2") /\ UNCHANGED nonUpVars
    \/ UpLock("u2") /\ UNCHANGED nonUpVars
    \/ UpStopStreams("u2") /\ UNCHANGED nonUpVars

\* The ticker of the health-check loop keeps firing, and a goroutine inside
\* failover goes on.
FailoverFair ==
    /\ WF_mgrVars(HealthTick)
    /\ \A p \in MgrProcs :
          WF_mgrVars(FailoverCas(p) \/ FailoverTry(p) \/ FailoverStore(p))

SpecFailover == FailoverInit /\ [][FailoverNext]_vars /\ FailoverFair

(***************************************************************************)
(* Specifications of the authentication service                            *)
(***************************************************************************)
\* Two requests with the key "k1", valid in the repository, and
\* InvalidateCache calls for it, interleaved.
AuthRaceInit ==
    /\ HubInitWith(1, 0) /\ LimInitWith(2, 4, 1) /\ CacheInitWith(1, 1)
    /\ UpInit /\ MgrInit
    /\ AuthInitWith({1}, {[tenant |-> "active", key |-> "active", exp |-> 0]})
    /\ WsInit /\ UsageInit

AuthRaceNext ==
    \/ \E p \in AuthProcs : AuthCall(p, "k1") /\ UNCHANGED nonAuthVars
    \/ \E p \in AuthProcs : AuthFromCache(p) /\ UNCHANGED nonAuthVars
    \/ \E p \in AuthProcs : AuthQuery(p) /\ UNCHANGED nonAuthVars
    \/ \E p \in AuthProcs : AuthValidate(p) /\ UNCHANGED nonAuthVars
    \/ \E p \in AuthProcs : AuthPut(p) /\ UNCHANGED nonAuthVars
    \/ \E p \in AuthProcs : AuthRespond(p) /\ UNCHANGED nonAuthVars
    \/ UpdateLastUsed /\ UNCHANGED nonAuthVars
    \/ InvalidateCache("k1") /\ UNCHANGED nonAuthVars

SpecAuthRace == AuthRaceInit /\ [][AuthRaceNext]_vars

\* One caller at a time, with or without a key, any row of the key or none,
\* a repository that fails and recovers, a key that gets revoked, the clock
\* and the cache cleanup.
AuthSeqInit ==
    /\ HubInitWith(1, 0) /\ LimInitWith(2, 4, 1) /\ CacheInitWith(1, 1)
    /\ UpInit /\ MgrInit
    /\ AuthInitWith(1..MaxTtl, AuthRows \cup {NoRow})
    /\ WsInit /\ UsageInit

AuthSeqNext ==
    \/ \E c \in AuthCreds : AuthCall("a1", c) /\ UNCHANGED nonAuthVars
    \/ AuthFromCache("a1") /\ UNCHANGED nonAuthVars
    \/ AuthRemove("a1") /\ UNCHANGED nonAuthVars
    \/ AuthQuery("a1") /\ UNCHANGED nonAuthVars
    \/ AuthValidate("a1") /\ UNCHANGED nonAuthVars
    \/ AuthPut("a1") /\ UNCHANGED nonAuthVars
    \/ AuthRespond("a1") /\ UNCHANGED nonAuthVars
    \/ UpdateLastUsed /\ UNCHANGED nonAuthVars
    \/ CleanupCache /\ UNCHANGED nonAuthVars
    \/ \E h \in AuthHashes : RepoRevoke(h) /\ UNCHANGED nonAuthVars
    \/ RepoFlip /\ UNCHANGED nonAuthVars
    \/ AuthTick(MaxAuthNow) /\ UNCHANGED nonAuthVars

SpecAuthSeq == AuthSeqInit /\ [][AuthSeqNext]_vars

(***************************************************************************)
(* Specification of the shutdown of the background tasks                   *)
(***************************************************************************)
\* main: requests that fill the limiter and the auth cache, the cleanup
\* goroutines NewLimiter and NewService start, the clocks, and the shutdown
\* sequence, which begins with upstreamMgr.Stop().
ShutdownInit ==
    /\ HubInitWith(1, 0) /\ LimInitWith(1, 4, 1) /\ CacheInitWith(1, 1)
    /\ UpInit /\ MgrInit
    /\ AuthInitWith({1}, {[tenant |-> "active", key |-> "active", exp |-> 0]})
    /\ WsInit /\ UsageInit

ShutdownNext ==
    \/ AllowCall("g1", "k1", 1, MaxAllows) /\ UNCHANGED nonLimVars
    \/ GocRead("g1") /\ UNCHANGED nonLimVars
    \/ GocWrite("g1") /\ UNCHANGED nonLimVars
    \/ DoAllow("g1") /\ UNCHANGED nonLimVars
    \/ LimReturn("g1") /\ UNCHANGED nonLimVars
    \/ Cleanup /\ UNCHANGED nonLimVars
    \/ LimTick(1) /\ UNCHANGED nonLimVars
    \/ AuthCall("a1", "k1") /\ UNCHANGED nonAuthVars
    \/ AuthFromCache("a1") /\ UNCHANGED nonAuthVars
    \/ AuthQuery("a1") /\ UNCHANGED nonAuthVars
    \/ AuthValidate("a1") /\ UNCHANGED nonAuthVars
    \/ AuthPut("a1") /\ UNCHANGED nonAuthVars
    \/ AuthRespond("a1") /\ UNCHANGED nonAuthVars
    \/ UpdateLastUsed /\ UNCHANGED nonAuthVars
    \/ CleanupCache /\ UNCHANGED nonAuthVars
    \/ AuthTick(MaxAuthNow) /\ UNCHANGED nonAuthVars
    \/ UpStopCall("u2") /\ UNCHANGED nonUpVars
    \/ UpStopCancel("u2") /\ UNCHANGED nonUpVars
    \/ UpStopRelease("u2") /\ UNCHANGED nonUpVars
    \/ UpLock("u2") /\ UNCHANGED nonUpVars
    \/ UpStopStreams("u2") /\ UNCHANGED nonUpVars

SpecShutdown == ShutdownInit /\ [][ShutdownNext]_vars

(***************************************************************************)
(* Specification of the data sink: upstream -> cache -> hub -> subscriber  *)
(***************************************************************************)
\* Manager.streamData: the update handed to onData. It names the type
\* "orderbook", the symbol and a Sequence taken from the clock (k: the
\* k-th update of the stream); its Orderbook and Trade fields are left nil.
StreamDataUpdate(sym, k) ==
    [type |-> "orderbook", symbol |-> sym, sequence |-> k,
     orderbook |-> NoValue, trade |-> FALSE]

\* streamData: `m.onData(stream.Symbol, update)`, the call of the closure
\* of main by the worker of the stream.
OnDataCall(p, bound) ==
    /\ At(p, "idle")
    /\ pubCount[PubSym(p)] < bound
    /\ pubCount' = [pubCount EXCEPT ![PubSym(p)] = @ + 1]
    /\ loc' = [loc EXCEPT ![p] = [NoLoc EXCEPT !.sym = PubSym(p),
                                               !.upd = pubCount[PubSym(p)] + 1]]
    /\ Goto(p, "on_data")
    /\ UNCHANGED <<cfgVars, topics, tmu, counterVars, subVars, now, crashed,
                   received, offers, firstDrop, nSubscribes, nUnsubscribes,
                   sentOnClosed>>

\* onData: `if data.Orderbook != nil { cacheLayer.UpdateOrderbook(...) }`
OnDataBook(p) ==
    /\ At(p, "on_data")
    /\ LET data == StreamDataUpdate(loc[p].sym, loc[p].upd) IN
       IF data.orderbook # NoValue
       THEN UpdateOrderbook(data.orderbook.symbol, data.orderbook.ts,
                            data.orderbook.seq, data.orderbook.asks,
                            data.orderbook.bids, FALSE)
       ELSE UNCHANGED cacheVars
    /\ Goto(p, "on_trade")
    /\ UNCHANGED <<cfgVars, topics, tmu, counterVars, subVars, now, loc,
                   crashed, histVars>>

\* onData: `if data.Trade != nil { cacheLayer.AddTrade(*data.Trade) }`, and
\* then the call fanoutHub.Publish(symbol, data).
OnDataTrade(p) ==
    /\ At(p, "on_trade")
    /\ LET data == StreamDataUpdate(loc[p].sym, loc[p].upd) IN
       IF data.trade
       THEN AddTrade(data.symbol, MaxPub)
       ELSE UNCHANGED cacheVars
    /\ Goto(p, "pub_lookup")
    /\ UNCHANGED <<cfgVars, topics, tmu, counterVars, subVars, now, loc,
                   crashed, histVars>>

\* A client subscribed to symbol A and reading its queue, the stream worker
\* of A delivering updates to onData, and snapshot requests.
SinkInit ==
    /\ HubInitWith(1, 0) /\ LimInitWith(2, 4, 1) /\ CacheInitWith(1, 1)
    /\ UpInit /\ MgrInit /\ AuthInit /\ WsInit /\ UsageInit

SinkNext ==
    \/ CreateSubscriber("s1") /\ UNCHANGED nonHubVars
    \/ SubscribeCall("s1", "A") /\ UNCHANGED nonHubVars
    \/ SubTopic("s1") /\ UNCHANGED nonHubVars
    \/ SubAdd("s1") /\ UNCHANGED nonHubVars
    \/ SubCount("s1") /\ UNCHANGED nonHubVars
    \/ OnDataCall("pA", MaxPub) /\ UNCHANGED nonHubVars
    \/ OnDataBook("pA") /\ UNCHANGED <<limVars, upVars, mgrVars, authVars, wsVars, usageVars>>
    \/ OnDataTrade("pA") /\ UNCHANGED <<limVars, upVars, mgrVars, authVars, wsVars, usageVars>>
    \/ PubLookup("pA") /\ UNCHANGED nonHubVars
    \/ PubSnapshot("pA") /\ UNCHANGED nonHubVars
    \/ PubNext("pA") /\ UNCHANGED nonHubVars
    \/ PubSend("pA") /\ UNCHANGED nonHubVars
    \/ UnsubLookup("pA") /\ UNCHANGED nonHubVars
    \/ UnsubLock("pA") /\ UNCHANGED nonHubVars
    \/ UnsubClose("pA") /\ UNCHANGED nonHubVars
    \/ UnsubDelete("pA") /\ UNCHANGED nonHubVars
    \/ Dequeue("s1") /\ UNCHANGED nonHubVars
    \/ (\E keep \in BOOLEAN : GetOrderbook("A", keep)) /\ UNCHANGED nonCacheVars
    \/ Tick /\ UNCHANGED nonHubVars

SpecSink == SinkInit /\ [][SinkNext]_vars

(***************************************************************************)
(* Specification of the snapshot endpoint                                  *)
(***************************************************************************)
\* The symbol of the hub and of the cache that an upstream stream carries:
\* the first upstream symbol is the symbol of the stream worker pA.
SymbolName(s) == IF s = 1 THEN "A" ELSE "B"

\* Server.handleGetOrderbook: s.cache.GetOrderbook(symbol); on a miss the
\* call s.upstream.Subscribe(symbol), whose nil return is answered 404 and
\* whose error 503; on a hit the snapshot is the response.
HandleGetOrderbook(p, s) ==
    /\ upc[p] = "idle"
    /\ GetOrderbook(SymbolName(s), FALSE)
    /\ IF orderbooks[SymbolName(s)] = 0
       THEN UpSubscribeCall(p, s)
       ELSE /\ uret' = [uret EXCEPT ![p] = NoURet]
            /\ UNCHANGED <<streams, sobj, streamsMu, poolRunning, upc, uloc,
                           ctxDone, poolClosed, poolCap, uev>>

\* runStream -> streamData: a tick of the stream's ticker, at which the
\* worker builds the update and calls onData.
StreamDeliver(i, p, bound) ==
    /\ SymbolName(sobj[i].symbol) = PubSym(p)
    /\ WorkerData(i)
    /\ OnDataCall(p, bound)

SnapshotInit ==
    /\ HubInitWith(1, 0) /\ LimInitWith(2, 4, 1) /\ CacheInitWith(1, 1)
    /\ UpInit /\ MgrInit /\ AuthInit /\ WsInit /\ UsageInit

SnapshotNext ==
    \/ HandleGetOrderbook("u1", 1) /\ UNCHANGED <<hubVars, limVars, mgrVars, authVars, wsVars, usageVars>>
    \/ UpLock("u1") /\ UNCHANGED nonUpVars
    \/ UpSubRegister("u1") /\ UNCHANGED nonUpVars
    \/ UpSubmit("u1") /\ UNCHANGED nonUpVars
    \/ (\E i \in StreamAddrs : WorkerConnect(i)) /\ UNCHANGED nonUpVars
    \/ (\E i \in StreamAddrs : StreamDeliver(i, "pA", MaxPub)) /\ UNCHANGED <<limVars, cacheVars, mgrVars, authVars, wsVars, usageVars>>
    \/ OnDataBook("pA") /\ UNCHANGED <<limVars, upVars, mgrVars, authVars, wsVars, usageVars>>
    \/ OnDataTrade("pA") /\ UNCHANGED <<limVars, upVars, mgrVars, authVars, wsVars, usageVars>>
    \/ PubLookup("pA") /\ UNCHANGED nonHubVars
    \/ Tick /\ UNCHANGED nonHubVars
    \/ CacheTick /\ UNCHANGED nonCacheVars

SpecSnapshot == SnapshotInit /\ [][SnapshotNext]_vars

(***************************************************************************)
(* Specification of the WebSocket handler                                  *)
(***************************************************************************)
\* wsjson.Write(ctx, conn, v): the frame goes to the client while the
\* connection is served; after Handle has returned the write fails.
WsWrite(w, frame) ==
    IF w.out = "pump" THEN [w EXCEPT !.conn = Append(@, frame)] ELSE w

WsFrame(kind, sym, seq) == [kind |-> kind, symbol |-> sym, seq |-> seq]

\* WSHandler.Handle, after Authenticate and AcquireStream have succeeded:
\* h.fanout.CreateSubscriber, `go h.handleIncoming(...)`, and the entry of
\* the loop over sub.SendChan.
WsHandle(s) ==
    /\ ws[s].out = "none"
    /\ CreateSubscriber(s)
    /\ ws' = [ws EXCEPT ![s] = [NoWs EXCEPT !.in = "read", !.out = "pump"]]

\* handleIncoming, op "subscribe": wsjson.Read, h.upstream.Subscribe (its
\* result is dropped) and the call h.fanout.Subscribe(msg.Symbol, sub).
WsReadSubscribe(s, sym) ==
    /\ ws[s].in = "read"
    /\ SubscribeCall(s, sym)
    /\ ws' = [ws EXCEPT ![s].in = "fanout", ![s].sym = sym,
                         ![s].asked = @ \cup {sym},
                         ![s].cached =
                             IF sym \notin ws[s].asked /\ orderbooks[sym] # 0
                             THEN @ \cup {sym} ELSE @]

\* handleIncoming, op "subscribe", once fanout.Subscribe has returned:
\* `if snapshot, ok := h.cache.GetOrderbook(msg.Symbol); ok {
\* wsjson.Write(ctx, conn, update) }` with IsSnapshot: true.
WsSnapshot(s) ==
    /\ ws[s].in = "fanout"
    /\ At(s, "idle")
    /\ GetOrderbook(ws[s].sym, FALSE)
    /\ ws' = [ws EXCEPT ![s] =
                 [(IF orderbooks[ws[s].sym] # 0
                   THEN WsWrite(ws[s], WsFrame("snapshot", ws[s].sym,
                                       snaps[orderbooks[ws[s].sym]].seq))
                   ELSE ws[s])
                  EXCEPT !.in = "ack"]]

\* handleIncoming, op "unsubscribe": wsjson.Read and the call
\* h.fanout.Unsubscribe(msg.Symbol, sub.ID).
WsReadUnsubscribe(s, sym) ==
    /\ ws[s].in = "read"
    /\ UnsubscribeCall(s, sym)
    /\ ws' = [ws EXCEPT ![s].in = "unsub", ![s].sym = sym]

\* handleIncoming: the acknowledgement {"op": "subscribed"} after the
\* snapshot, {"op": "unsubscribed"} after fanout.Unsubscribe has returned.
WsAck(s) ==
    /\ \/ ws[s].in = "ack"
       \/ ws[s].in = "unsub" /\ At(s, "idle")
    /\ ws' = [ws EXCEPT ![s] =
                 [WsWrite(ws[s], WsFrame(IF ws[s].in = "ack" THEN "subscribed"
                                         ELSE "unsubscribed", ws[s].sym, 0))
                  EXCEPT !.in = "read", !.sym = "-"]]

\* handleIncoming: `if err := wsjson.Read(ctx, conn, &msg); err != nil {
\* return }`: the client went away or the context was cancelled.
WsIncomingExit(s) ==
    /\ ws[s].in = "read"
    /\ ws' = [ws EXCEPT ![s].in = "gone"]

\* Handle: `case msg, ok := <-sub.SendChan:` with ok, and
\* wsjson.Write(ctx, conn, msg).
WsPump(s) ==
    /\ ws[s].out = "pump"
    /\ Dequeue(s)
    /\ ws' = [ws EXCEPT ![s] =
                 WsWrite(ws[s], WsFrame("update", Head(sendChan[s])[1],
                                        Head(sendChan[s])[2]))]

\* Handle: `if !ok { return nil }`: the queue is closed and drained.
WsPumpClosed(s) ==
    /\ ws[s].out = "pump"
    /\ chanCloses[s] > 0 /\ sendChan[s] = << >>
    /\ ws' = [ws EXCEPT ![s].out = "returned"]

\* Handle: `case <-ctx.Done(): return ctx.Err()`, or the write failed; the
\* deferred ReleaseStream is all that runs after it.
WsReturn(s) ==
    /\ ws[s].out = "pump"
    /\ ws' = [ws EXCEPT ![s].out = "returned"]

\* One connection: its two goroutines, the stream worker of symbol A
\* publishing, and the cache being filled with books of A.
WsInitAll ==
    /\ HubInitWith(1, 0) /\ LimInitWith(2, 4, 1) /\ CacheInitWith(1, 1)
    /\ UpInit /\ MgrInit /\ AuthInit /\ WsInit /\ UsageInit

WsNext ==
    \/ WsHandle("s1") /\ UNCHANGED <<limVars, cacheVars, upVars, mgrVars, authVars, usageVars>>
    \/ WsReadSubscribe("s1", "A") /\ UNCHANGED <<limVars, cacheVars, upVars, mgrVars, authVars, usageVars>>
    \/ SubTopic("s1") /\ UNCHANGED nonHubVars
    \/ SubAdd("s1") /\ UNCHANGED nonHubVars
    \/ SubCount("s1") /\ UNCHANGED nonHubVars
    \/ WsSnapshot("s1") /\ UNCHANGED <<hubVars, limVars, upVars, mgrVars, authVars, usageVars>>
    \/ WsReadUnsubscribe("s1", "A") /\ UNCHANGED <<limVars, cacheVars, upVars, mgrVars, authVars, usageVars>>
    \/ WsAck("s1") /\ UNCHANGED nonWsVars
    \/ WsIncomingExit("s1") /\ UNCHANGED nonWsVars
    \/ WsPump("s1") /\ UNCHANGED <<limVars, cacheVars, upVars, mgrVars, authVars, usageVars>>
    \/ WsPumpClosed("s1") /\ UNCHANGED nonWsVars
    \/ WsReturn("s1") /\ UNCHANGED nonWsVars
    \/ PublishCall("pA", MaxPub) /\ UNCHANGED nonHubVars
    \/ PubLookup("pA") /\ UNCHANGED nonHubVars
    \/ PubSnapshot("pA") /\ UNCHANGED nonHubVars
    \/ PubNext("pA") /\ UNCHANGED nonHubVars
    \/ PubSend("pA") /\ UNCHANGED nonHubVars
    \/ (\E p \in {"s1", "pA"} : UnsubLookup(p)) /\ UNCHANGED nonHubVars
    \/ (\E p \in {"s1", "pA"} : UnsubLock(p)) /\ UNCHANGED nonHubVars
    \/ (\E p \in {"s1", "pA"} : UnsubClose(p)) /\ UNCHANGED nonHubVars
    \/ (\E p \in {"s1", "pA"} : UnsubDelete(p)) /\ UNCHANGED nonHubVars
    \/ UpdateOrderbook("A", cnow, 1, << >>, << >>, FALSE) /\ UNCHANGED nonCacheVars

SpecWs == WsInitAll /\ [][WsNext]_vars

(***************************************************************************)
(* Specification of a resubscription                                       *)
(***************************************************************************)
\* A client that subscribes, unsubscribes and subscribes symbol 1 again,
\* with a pool that has a worker to spare for the new stream while the
\* worker of the old one is still running (ants.NewPool(100)).
RestartInit ==
    /\ HubInitWith(1, 0) /\ LimInitWith(2, 4, 1) /\ CacheInitWith(1, 1)
    /\ UpInitWith(PoolSize + 1) /\ MgrInit /\ AuthInit /\ WsInit /\ UsageInit

RestartNext ==
    \/ UpSubscribeCall("u1", 1) /\ UNCHANGED nonUpVars
    \/ UpUnsubscribeCall("u1", 1) /\ UNCHANGED nonUpVars
    \/ UpLock("u1") /\ UNCHANGED nonUpVars
    \/ UpSubRegister("u1") /\ UNCHANGED nonUpVars
    \/ UpSubmit("u1") /\ UNCHANGED nonUpVars
    \/ UpUnsubscribe("u1") /\ UNCHANGED nonUpVars
    \/ (\E i \in StreamAddrs : WorkerConnect(i)) /\ UNCHANGED nonUpVars
    \/ (\E i \in StreamAddrs : WorkerExit(i)) /\ UNCHANGED nonUpVars
    \/ (\E i \in StreamAddrs : WorkerData(i)) /\ UNCHANGED nonUpVars
    \/ (\E i \in StreamAddrs : WorkerStreamDone(i)) /\ UNCHANGED nonUpVars

SpecRestart == RestartInit /\ [][RestartNext]_vars

(***************************************************************************)
(* Specification of the limiter key of a request                           *)
(***************************************************************************)
\* The API key ids of the requests: small ids, and ids of the surrogate
\* range U+D800..U+DFFF.
ApiKeyIds == {1, 55296, 55297}

\* authMiddleware, Handle, unaryAuthInterceptor:
\* `keyID := string(rune(authCtx.APIKeyID))`
keyID(id) == StringOfRune(Rune(id))

\* The strings the requests use as limiter keys, and the name each has in
\* Keys: the n-th smallest string is the n-th name.
KeyStrings == {keyID(id) : id \in ApiKeyIds}
KeyNames == <<"k1", "k2">>
KeyName(str) == KeyNames[Cardinality({c \in KeyStrings : c <= str})]

\* Requests under every API key id: s.limiter.Allow(keyID) in the
\* middleware, h.limiter.AcquireStream(keyID, m) in the WebSocket handler.
KeyIdInit ==
    /\ HubInitWith(1, 0) /\ LimInitWith(2, 4, 1) /\ CacheInitWith(1, 1)
    /\ UpInit /\ MgrInit /\ AuthInit /\ WsInit /\ UsageInit

KeyIdNext ==
    \/ (\E id \in ApiKeyIds : AllowCall("g1", KeyName(keyID(id)), 1, MaxAllows)) /\ UNCHANGED nonLimVars
    \/ (\E id \in ApiKeyIds : AcquireCall("g1", KeyName(keyID(id)), 1)) /\ UNCHANGED nonLimVars
    \/ GocRead("g1") /\ UNCHANGED nonLimVars
    \/ GocWrite("g1") /\ UNCHANGED nonLimVars
    \/ DoAllow("g1") /\ UNCHANGED nonLimVars
    \/ DoAcquire("g1") /\ UNCHANGED nonLimVars
    \/ LimReturn("g1") /\ UNCHANGED nonLimVars
    \/ LimTick(1) /\ UNCHANGED nonLimVars

SpecKeyId == KeyIdInit /\ [][KeyIdNext]_vars

(***************************************************************************)
(* Specification of the usage collector                                    *)
(***************************************************************************)
\* A goroutine recording usage of every (tenant, key) pair, and flushLoop.
UsageInitAll ==
    /\ HubInitWith(1, 0) /\ LimInitWith(2, 4, 1) /\ CacheInitWith(1, 1)
    /\ UpInit /\ MgrInit /\ AuthInit /\ WsInit /\ UsageInit

UsageNext ==
    \/ (\E x \in UsagePairs, k \in UsageKinds : RecordCall("r1", x, k, MaxRecords)) /\ UNCHANGED nonUsageVars
    \/ UsageRead("r1") /\ UNCHANGED nonUsageVars
    \/ UsageWrite("r1") /\ UNCHANGED nonUsageVars
    \/ UsageAdd("r1") /\ UNCHANGED nonUsageVars
    \/ FlushSwap /\ UNCHANGED nonUsageVars
    \/ FlushDrain /\ UNCHANGED nonUsageVars

SpecUsage == UsageInitAll /\ [][UsageNext]_vars

-----------------------------------------------------------------------------
(***************************************************************************)
(* Properties of the hub                                                   *)
(***************************************************************************)

AllIdle == \A p \in HubProcs : pc[p] = "idle"

RECURSIVE SumSizes(_)
SumSizes(syms) ==
    IF syms = {} THEN 0
    ELSE LET x == CHOOSE y \in syms : TRUE
         IN Cardinality(topics[x]) + SumSizes(syms \ {x})

\* C1: the send queue of a subscriber is never closed more than once, and a
\* subscriber that has been removed (its one-shot flag is set and no hub
\* operation is in progress) has had its queue closed exactly once.
C1_QueueClosedOnce ==
    \A s \in SubIds :
        /\ chanCloses[s] <= 1
        /\ (subClosed[s] /\ AllIdle) => chanCloses[s] = 1

\* C2: Publish never executes a send on a send queue that has been closed.
C2_NoSendAfterClose == ~sentOnClosed

\* C3: whenever no hub operation is in progress, active_subscribers equals
\* the sum of the sizes of the topics.
C3_ActiveEqualsTopicSizes ==
    AllIdle => activeSubscribers = SumSizes(DOMAIN topics)

\* C4: a subscriber of symbol A, subscribed once, whose reader never
\* dequeues: after up to b+t publishes that reached it, it is still in the
\* topic with its queue open; once publish b+t+1 has returned it is out of
\* the topic, its queue is closed and the hub dropped at least t+1 updates.
C4_EvictedAfterBudget ==
    \A s \in SubIds :
        (/\ nSubscribes[s] = 1
         /\ pc[s] = "idle"
         /\ received[s] = << >>
         /\ \A p \in Publishers : pc[p] = "idle")
        => LET n == Len(offers[s]) IN
           /\ n <= bufferSize + slowThreshold
                => (s \in topics["A"] /\ chanCloses[s] = 0 /\ ~subClosed[s])
           /\ n >= bufferSize + slowThreshold + 1
                => /\ s \notin topics["A"]
                   /\ chanCloses[s] = 1
                   /\ droppedMessages >= slowThreshold + 1

\* C4 witness: with a threshold of at least 1, a subscriber that never read
\* was evicted by publish b+t+1.
C4_Witness ==
    \E s \in SubIds :
        /\ nSubscribes[s] = 1 /\ pc[s] = "idle" /\ received[s] = << >>
        /\ \A p \in Publishers : pc[p] = "idle"
        /\ slowThreshold >= 1
        /\ Len(offers[s]) = bufferSize + slowThreshold + 1
        /\ s \notin topics["A"] /\ chanCloses[s] = 1

\* u is a subsequence of v
RECURSIVE IsSubseq(_, _)
IsSubseq(u, v) ==
    IF u = << >> THEN TRUE
    ELSE IF v = << >> THEN FALSE
    ELSE IF Head(u) = Head(v) THEN IsSubseq(Tail(u), Tail(v))
    ELSE IsSubseq(u, Tail(v))

\* The updates that reached the reader or wait in the queue, in order.
Delivered(s) == received[s] \o sendChan[s]

\* C5: with Publish calls issued one after another, the updates Publish
\* offered to a subscriber are consecutive updates of the symbol; what the
\* subscriber gets is a subsequence of them in publish order, and up to the
\* first dropped update it is exactly their prefix.
C5_FifoUpToFirstDrop ==
    \A s \in SubIds :
        LET k == IF firstDrop[s] = 0 THEN Len(offers[s]) ELSE firstDrop[s] - 1
        IN
        /\ \A i \in 1..(Len(offers[s]) - 1) :
               offers[s][i + 1][2] = offers[s][i][2] + 1
        /\ \A i \in 1..Len(offers[s]) : offers[s][i][2] <= pubCount["A"]
        /\ IsSubseq(Delivered(s), offers[s])
        /\ Len(Delivered(s)) >= k
        /\ SubSeq(Delivered(s), 1, k) = SubSeq(offers[s], 1, k)

\* C5 witness: a reader has dequeued two updates and a later update was
\* dropped and one after the drop was delivered.
C5_Witness ==
    \E s \in SubIds :
        /\ Len(received[s]) >= 2
        /\ firstDrop[s] # 0
        /\ Len(Delivered(s)) >= firstDrop[s]

\* C6: every Publish returns (none ends in a panic), and no topic lock is
\* left held by a goroutine that has ended.
C6_PublishReturnsLocksFree ==
    /\ \A p \in Publishers : pc[p] # "panicked"
    /\ \A sym \in Symbols :
           tmu[sym] \in Publishers => pc[tmu[sym]] # "panicked"

-----------------------------------------------------------------------------
(***************************************************************************)
(* Properties of the rate limiter                                          *)
(***************************************************************************)

\* Every StreamLimiter ever allocated has 0 <= activeStreams <= maxStreams.
StreamsInRange ==
    \A i \in 1..Len(cl) :
        cl[i].streams.active >= 0 /\ cl[i].streams.active <= cl[i].streams.max

\* A step of a ReleaseStream call leaves the key map and the set of
\* ClientLimiter objects as they are, and a count that is 0 stays 0.
ReleaseKeepsZero ==
    \A p \in LimProcs :
        (lloc[p].op = "release" /\ lpc'[p] # lpc[p])
        => /\ limiters' = limiters
           /\ Len(cl') = Len(cl)
           /\ \A i \in 1..Len(cl) :
                  cl[i].streams.active = 0 => cl'[i].streams.active = 0

\* C7: under every interleaving of AcquireStream, ReleaseStream, SetLimit
\* and the GC pass, active_streams of every semaphore stays within
\* 0..max_streams; ReleaseStream on a count of 0 or on a key the limiter
\* does not know leaves the count at 0 and creates no entry.
C7_ActiveStreamsInRange == [](StreamsInRange) /\ [][ReleaseKeepsZero]_vars

\* C7 witness: ReleaseStream returned for a key the limiter does not know
\* (the GC pass had removed its entry), and no entry was created.
C7_Witness ==
    \E p \in LimProcs :
        /\ lpc[p] = "done" /\ lloc[p].op = "release" /\ lloc[p].cl = 0
        /\ limiters[lloc[p].key] = 0
        /\ Len(cl) >= 1

\* C8: the step of AcquireStream that acquires returns true and raises
\* active_streams by exactly one iff active_streams < max_streams before
\* it, and otherwise returns false and leaves the semaphore as it was; the
\* step of ReleaseStream that releases lowers a positive count by one.
C8_AcquireIffBelowMax ==
    [][\A p \in LimProcs :
          /\ (lpc[p] = "do" /\ lloc[p].op = "acquire" /\ lpc'[p] = "done")
             => LET before == cl[lloc[p].cl].streams
                    after == cl'[lloc[p].cl].streams
                IN IF before.active < before.max
                   THEN /\ lloc'[p].res
                        /\ after.active = before.active + 1
                        /\ after.max = before.max
                   ELSE /\ ~lloc'[p].res
                        /\ after = before
          /\ (lpc[p] = "rel_do" /\ lpc'[p] = "done")
             => LET before == cl[lloc[p].cl].streams
                    after == cl'[lloc[p].cl].streams
                IN before.active > 0 => after.active = before.active - 1
      ]_vars

\* C8 witness: with a limit of 2 both slots are taken and a further
\* AcquireStream has returned false.
C8_Witness ==
    \E p \in LimProcs :
        /\ lpc[p] = "done" /\ lloc[p].op = "acquire" /\ ~lloc[p].res
        /\ cl[lloc[p].cl].streams.max = 2
        /\ cl[lloc[p].cl].streams.active = 2

\* C9: the limit of a key's semaphore is the max_streams of the first
\* AcquireStream that got the key's entry (or the one SetLimit set),
\* whatever Allow/AllowN calls were made on the key before.
C9_LimitIsFirstAcquire ==
    \A k \in Keys :
        (limiters[k] # 0 /\ firstAcq[k] # 0)
        => cl[limiters[k]].streams.max = firstAcq[k]

\* The Allow calls logged for the key of the token-bucket specification.
BucketLog == allowLog["k1"]

\* Of the Allow calls made at the instant of the first one, exactly the
\* first b are admitted.
BurstAdmitted(b) ==
    \A i \in 1..Len(BucketLog) :
        BucketLog[i].t = BucketLog[1].t => (BucketLog[i].ok <=> i <= b)

\* An Allow call made at least 1/default_rps seconds after the call before
\* it is admitted.
RefillAdmits ==
    \A i \in 2..Len(BucketLog) :
        (BucketLog[i].t - BucketLog[i - 1].t) * defaultRPS >= TicksPerSec
        => BucketLog[i].ok

\* The tokens of a bucket never exceed its burst, and no more than b Allow
\* calls are admitted at one instant.
TokensCapped(b) ==
    /\ \A i \in 1..Len(cl) : cl[i].tokens <= cl[i].burst * TicksPerSec
    /\ \A tau \in 0..MaxLimNow :
           Cardinality({i \in 1..Len(BucketLog) :
                           BucketLog[i].t = tau /\ BucketLog[i].ok}) <= b

RECURSIVE AdmittedIn(_, _, _, _)
AdmittedIn(log, i, from, to) ==
    IF i > Len(log) THEN 0
    ELSE (IF log[i].ok /\ log[i].t >= from /\ log[i].t <= to
          THEN log[i].n ELSE 0) + AdmittedIn(log, i + 1, from, to)

\* C11: for a key with rate R and burst 2R, the requests admitted by
\* Allow/AllowN in any window of one second (TicksPerSec consecutive
\* ticks) are at most R + burst, whatever the call times and also across
\* a GC pass.
C11_AdmittedPerSecond ==
    \A from \in 0..MaxLimNow :
        AdmittedIn(allowLog["k1"], 1, from, from + TicksPerSec - 1)
            <= defaultRPS + defaultBurst

\* C12: the GC pass removes a key only if its last access is more than
\* 2*cleanup_interval ago and its active_streams is 0, and a semaphore
\* that holds an acquired, unreleased stream belongs to a key the limiter
\* still has: no entry with a stream in use is ever removed.
C12_KeyWithStreamKept ==
    \A i \in 1..Len(cl) :
        cl[i].streams.active > 0 => \E k \in Keys : limiters[k] = i

\* The first d elements of s.
FirstN(s, d) == SubSeq(s, 1, Min(d, Len(s)))

\* What UpdateOrderbook is to keep of the snapshot v it is given.
KeptOf(v) == [v EXCEPT !.asks = FirstN(@, maxDepth),
                       !.bids = FirstN(@, maxDepth)]

\* What the cache holds for symbol s.
Cached(s) == IF orderbooks[s] = 0 THEN NoValue ELSE SnapValue(orderbooks[s])

\* Every cached snapshot is the last one given for its symbol, each side
\* cut to its first maxDepth levels.
CachedIsLastInputCut ==
    \A s \in Symbols :
        /\ Cached(s) = KeptOf(lastUpd[s])
        /\ Len(Cached(s).asks) <= maxDepth
        /\ Len(Cached(s).bids) <= maxDepth

\* GetOrderbook returns that same snapshot.
GetReturnsLastInputCut ==
    cop'.op = "get" =>
        \/ lastGot' = NoValue /\ \E s \in Symbols : lastUpd[s] = NoValue
        \/ /\ lastGot'.symbol \in Symbols
           /\ lastGot' = KeptOf(lastUpd[lastGot'.symbol])
           /\ Len(lastGot'.asks) <= maxDepth
           /\ Len(lastGot'.bids) <= maxDepth

Ascending(s) == \A i \in 1..(Len(s) - 1) : s[i] < s[i + 1]
Descending(s) == \A i \in 1..(Len(s) - 1) : s[i] > s[i + 1]

\* C14: every snapshot held by the cache and every snapshot returned by
\* GetOrderbook has asks strictly ascending and bids strictly descending by
\* price, for every snapshot that UpdateOrderbook accepts and stores.
C14_SnapshotOrdering ==
    /\ \A s \in Symbols : Ascending(Cached(s).asks) /\ Descending(Cached(s).bids)
    /\ Ascending(lastGot.asks) /\ Descending(lastGot.bids)

\* The addresses of the copies GetOrderbook returned.
Copies == {got[i] : i \in DOMAIN got}

\* A returned copy reads differently after a step only if that step is a
\* write of its holder to that very copy.
CopiesKeepValue ==
    \A a \in Copies :
        \/ cop'.op = "mutate" /\ cop'.a = a
        \/ SnapValue(a)' = SnapValue(a)

\* A write to a returned copy leaves what the cache holds as it was.
CopyWriteLeavesCache ==
    (cop'.op = "mutate" /\ cop'.a \in Copies) =>
        \A s \in Symbols : Cached(s)' = Cached(s)

\* C15: GetOrderbook returns a copy that shares no mutable state with the
\* cache: a write to a returned snapshot (a field or a price level) changes
\* neither the cached snapshot nor another returned copy, and a later
\* UpdateOrderbook, Cleanup or write to the object that was passed to
\* UpdateOrderbook changes no snapshot already returned.
C15_CopyIsIndependent ==
    [][CopiesKeepValue /\ CopyWriteLeavesCache]_vars

\* Two copies of one cached book were returned; the first was written to,
\* then the object that had been passed to UpdateOrderbook was written to:
\* the cache reads the latter write, the second copy reads as returned.
C15_Witness ==
    /\ Len(got) = 2
    /\ orderbooks["A"] \in args
    /\ SnapValue(got[1]) = [symbol |-> "A", ts |-> -1, seq |-> 0,
                            asks |-> <<0>>, bids |-> <<0>>]
    /\ SnapValue(got[2]) = [symbol |-> "A", ts |-> -1, seq |-> 1,
                            asks |-> <<2>>, bids |-> <<1>>]
    /\ Cached("A") = SnapValue(got[1])
    /\ cop.op = "mutate" /\ cop.a = orderbooks["A"]

\* The last m elements of s.
LastN(s, m) == SubSeq(s, Len(s) - m + 1, Len(s))

\* The last min(n, k, cap) of the first k trades added for symbol s.
Recent(s, n, k) == LastN(SubSeq(tradeLog[s], 1, k), Min(n, Min(k, tradeSize)))

\* C16: for a ring of capacity cap and k AddTrade calls for a symbol,
\* GetRecentTrades(symbol, n) returns exactly the last min(n, k, cap)
\* trades added for the symbol, oldest first; the ring holds the last
\* min(k, cap) trades in insertion order, and GetAll equals GetRecent(cap).
C16_RingRecency ==
    /\ lastRecent.symbol \in Symbols =>
          lastRecent.res = Recent(lastRecent.symbol, lastRecent.n, lastRecent.k)
    /\ \A s \in Symbols : trades[s] # NoRing =>
          /\ RingGetAll(trades[s]) = Recent(s, tradeSize, Len(tradeLog[s]))
          /\ RingGetAll(trades[s]) = RingGetRecent(trades[s], tradeSize)

\* More trades than the capacity were added for A, the ring has wrapped to
\* the middle of its array, and a read of fewer trades than the capacity
\* returned the newest ones.
C16_Witness ==
    /\ tradeSize = 2
    /\ Len(tradeLog["A"]) = 3
    /\ trades["A"].head = 1
    /\ trades["B"] # NoRing
    /\ lastRecent = [symbol |-> "A", n |-> 1, k |-> 3,
                     res |-> <<[symbol |-> "A", id |-> 3]>>]

C18_SequenceNonDecreasing ==
    [][cop'.op = "update" =>
         \A s \in Symbols :
            (orderbooks[s] # 0 /\ orderbooks'[s] # 0) =>
               Cached(s)'.seq >= Cached(s).seq]_vars

\* No Subscribe call for symbol s is between registering the stream and
\* its return.
Settled(s) ==
    \A p \in UpProcs : ~(upc[p] = "submit" /\ uloc[p].symbol = s)

\* One stream per subscribed symbol, and one worker started for it.
OneStreamOneWorker ==
    /\ \A i \in StreamAddrs :
          (sobj[i] # NoStream /\ ~sobj[i].cancelled) =>
             streams[sobj[i].symbol] = i
    /\ \A s \in UpSymbols :
          (streams[s] # 0 /\ Settled(s)) =>
             sobj[streams[s]].worker \notin {"none", "done"}

\* C19: Subscribe(symbol) is idempotent: any number of Subscribe calls for
\* one symbol, sequential or concurrent, with no Unsubscribe in between,
\* leave exactly one stream registered and exactly one worker started for
\* the symbol, and every call returns success.
C19_SubscribeIdempotent ==
    /\ [](OneStreamOneWorker)
    /\ \A p \in UpProcs :
          (uloc[p].op = "subscribe") ~> (upc[p] = "idle" /\ uret[p].val = "nil")

\* C20: Subscribe returns as soon as the stream is registered, whatever the
\* number of subscribed symbols: it never waits, holding streamsMu, for a
\* worker of the pool.
C20_SubscribeNeverWaitsUnderLock ==
    \A p \in UpProcs : upc[p] = "submit" => poolRunning < PoolSize

\* The worker of the Stream at address i has started and not yet returned.
AtWork(i) == sobj[i].worker \in {"top", "stream", "backoff"}

\* A returning Unsubscribe leaves no stream registered for its symbol, and
\* changes nothing if there was none.
UnsubscribeRemoves ==
    \A p \in UpProcs :
        (uloc[p].op = "unsubscribe" /\ upc[p] = "locked" /\ upc'[p] = "idle") =>
            /\ streams'[uloc[p].symbol] = 0
            /\ streams[uloc[p].symbol] = 0 =>
                  (streams' = streams /\ sobj' = sobj /\ uev' = uev)

\* A stream that gets registered is a new object, with ReconnectCount 0.
SubscribeMakesFresh ==
    \A s \in UpSymbols :
        (streams[s] = 0 /\ streams'[s] # 0) =>
            /\ sobj[streams'[s]] = NoStream
            /\ sobj'[streams'[s]].rc = 0
            /\ sobj'[streams'[s]].status = "connecting"

\* The data sink is invoked for a symbol only by a worker that has not
\* returned.
SinkByWorkerAtWork ==
    (uev' # uev /\ uev'.ev = "data") =>
        \E i \in StreamAddrs :
            sobj[i].symbol = uev'.symbol /\ sobj[i].worker = "stream"

\* C21: Unsubscribe(symbol) is idempotent and tears the stream down: after
\* it returns the symbol has no registered stream, a repeated Unsubscribe
\* changes nothing, the worker of the stream eventually returns and
\* invokes the data sink no more, and a later Subscribe makes a fresh
\* stream with reconnect count 0.
C21_UnsubscribeTearsDown ==
    /\ [][UnsubscribeRemoves /\ SubscribeMakesFresh /\ SinkByWorkerAtWork]_vars
    /\ \A i \in StreamAddrs :
          (AtWork(i) /\ sobj[i].cancelled) ~> ~AtWork(i)

\* A stream that had reconnected was unsubscribed while its successor-to-be
\* was not yet there; its worker is still at work, cancelled, while a
\* Subscribe has registered a new stream with reconnect count 0.
C21_Witness ==
    /\ ~ctxDone
    /\ streams[1] # 0
    /\ sobj[streams[1]].rc = 0 /\ ~sobj[streams[1]].cancelled
    /\ \E i \in StreamAddrs :
          /\ i # streams[1]
          /\ AtWork(i) /\ sobj[i].cancelled /\ sobj[i].rc >= 1


\* The moves of Stream.Status the specification allows for one Stream
\* object.
LegalMove(old, new, cancelled) ==
    \/ old = "connecting" /\ new = "active"
    \/ old = "active" /\ new = "reconnecting"
    \/ old = "reconnecting" /\ new = "active"
    \/ old # "closed" /\ new = "closed" /\ cancelled

LegalMoves ==
    \A i \in StreamAddrs :
        (sobj[i].symbol # 0 /\ sobj'[i].symbol = sobj[i].symbol
            /\ sobj'[i].status # sobj[i].status) =>
                LegalMove(sobj[i].status, sobj'[i].status, sobj[i].cancelled)

\* No call is under way and no worker is at work.
Quiescent ==
    /\ \A p \in UpProcs : upc[p] = "idle"
    /\ \A i \in StreamAddrs : ~AtWork(i)

\* C22: the status of a stream only moves Connecting -> Active,
\* Active -> Reconnecting, Reconnecting -> Active, and to Closed once its
\* context is cancelled; Closed is final; and every stream whose context is
\* cancelled ends with status Closed, so that once nothing runs any more no
\* cancelled stream has another status and no worker has returned with
\* another status.
C22_CancelledEndsClosed ==
    /\ [][LegalMoves]_vars
    /\ [](uev.ev = "exit" => uev.status = "closed")
    /\ [](Quiescent =>
            \A i \in StreamAddrs :
                (sobj[i].symbol # 0 /\ sobj[i].cancelled) =>
                    sobj[i].status = "closed")


\* C26: after Stop every worker eventually returns, the data sink is invoked
\* by no worker that has returned, and no stream stays registered for ever
\* without becoming Active or Closed, a stream that a Subscribe registers
\* after Stop included.
C26_StopLeavesNothingBehind ==
    /\ ctxDone ~> (\A i \in StreamAddrs : ~AtWork(i))
    /\ [][SinkByWorkerAtWork]_vars
    /\ \A i \in StreamAddrs :
          (ctxDone /\ sobj[i].status = "connecting") ~>
              (sobj[i].status # "connecting")


\* min(b * 2^k, m) over the integers, for 0 < b and 0 < m < 2^63.
BackoffTarget(b, m, k) ==
    IF k <= 62 /\ DurBelow(b, DurShl(DurOne, 63 - k))
              /\ DurBelow(DurShl(b, k), m)
    THEN DurShl(b, k)
    ELSE m

\* d is positive and within 10% of t.
WithinTenPercent(d, t) ==
    LET tenth == DurDiv(t, 10) IN
    /\ ~DurIsNeg(d) /\ d # DurZero
    /\ ~DurBelow(d, DurAdd(t, DurNeg(tenth)))
    /\ ~DurBelow(DurAdd(t, tenth), d)

\* C23: for every failure count n >= 1 the delay calculateBackoff(n) returns
\* lies within 10% of min(B * 2^(n-1), M), B and M the base and maximum
\* delays in force; so it is positive and at most 1.1 * M, for large n too.
C23_BackoffWithinTenPercent ==
    backoff.attempt >= 1 =>
        WithinTenPercent(
            backoff.delay,
            BackoffTarget(
                IF backoff.base = DurZero THEN DefaultBaseDelay
                                          ELSE backoff.base,
                IF backoff.max = DurZero THEN DefaultMaxDelay ELSE backoff.max,
                backoff.attempt - 1))


\* The goroutine is inside a failover sweep: past the CompareAndSwap, the
\* deferred Store(false) not yet run.
InSweep(p) == fpc[p] \in {"loop", "store"}

\* A failover that finds a sweep in progress at its CompareAndSwap returns
\* nil at once and has attempted no connection.
BusyFailoverReturns ==
    \A p \in MgrProcs :
        (fpc[p] = "cas" /\ fpc'[p] # "cas"
            /\ \E q \in MgrProcs \ {p} : InSweep(q)) =>
                /\ fpc'[p] = AfterFailover(p)
                /\ floc'[p].ret = "skipped" /\ floc'[p].tried = 0
                /\ activeGateway' = activeGateway
                /\ reconnecting' = reconnecting

\* C24: at most one failover sweep runs at a time; a failover invoked while
\* another is in progress returns without attempting any connection; and
\* the guard is set exactly while a sweep runs, so that it is clear once
\* the sweep has ended, with a gateway found or with all gateways failed,
\* and a later failover can run.
C24_FailoverSingleFlight ==
    /\ [](Cardinality({p \in MgrProcs : InSweep(p)}) <= 1)
    /\ [](reconnecting <=> \E p \in MgrProcs : InSweep(p))
    /\ [][BusyFailoverReturns]_vars

\* One failover has returned at once while the other is at the end of a
\* sweep in which all gateways failed.
C24_Witness ==
    \E p, q \in FoProcs :
        /\ p # q
        /\ fpc[p] = "idle" /\ floc[p].ret = "skipped"
        /\ fpc[q] = "store" /\ floc[q].ret = "all gateways failed"


\* A failover that connects has tried the gateways from the lowest priority
\* number on and stops at the first one that connects.
SweepInPriorityOrder ==
    \A p \in MgrProcs :
        (fpc[p] = "loop" /\ fpc'[p] = "store" /\ floc'[p].ret = "nil") =>
            /\ activeGateway'.index = floc[p].i
            /\ \A k \in 1..Len(gateways) :
                  gateways[floc[p].i] <= gateways[k]

\* C25: with two gateways of priorities 1 and 2 and gateway 1 active, once
\* gateway 1 is unhealthy and gateway 2 is not, the health loop eventually
\* makes gateway 2 the active gateway (unless the manager is stopped); and a
\* failover tries the gateways in ascending priority order and ends on the
\* first one that connects.
C25_UnhealthyGatewayFailsOver ==
    /\ (/\ startRet = "nil" /\ Len(gateways) = 2
        /\ activeGateway.index = 1
        /\ 1 \notin healthy /\ 2 \in healthy)
          ~> (activeGateway.index = 2 \/ ctxDone)
    /\ [][SweepInPriorityOrder]_vars


\* C27: once InvalidateCache(credential) has returned, an Authenticate for
\* the credential that begins afterwards and returns a record returns one
\* read from the repository after the invalidation, also when another
\* Authenticate was between its repository query and its cache insertion
\* while InvalidateCache ran.
C27_FreshAfterInvalidate ==
    \A p \in AuthProcs :
        (apc[p] = "done" /\ aloc[p].ret = "nil" /\ ~aloc[p].early) =>
            aloc[p].rec.fresh


\* The error the specification names for a record that is not valid, at
\* time t.
ErrorOfRecord(ac, t) ==
    CASE ac.tenant = "suspended" -> "ErrSuspendedTenant"
      [] ac.tenant # "suspended" /\ ac.key = "revoked" -> "ErrRevokedAPIKey"
      [] ac.tenant # "suspended" /\ ac.key # "revoked"
            /\ (ac.key = "expired" \/ (ac.exp # 0 /\ ac.exp < t)) ->
                "ErrExpiredAPIKey"
      [] OTHER -> "ErrInvalidAPIKey"

\* What a returned Authenticate has done, by its outcome.
OutcomeOfCall(p) ==
    /\ aloc[p].cred = "" =>
          /\ aloc[p].ret = "ErrMissingAPIKey"
          /\ ~aloc[p].touched /\ aloc[p].rec = NoAuth
    /\ (aloc[p].ret \notin {"nil", "ErrMissingAPIKey"}
            /\ aloc[p].rec # NoAuth) =>
          /\ ~IsValid(aloc[p].rec, aloc[p].at)
          /\ aloc[p].ret = ErrorOfRecord(aloc[p].rec, aloc[p].at)
    /\ aloc[p].ret # "nil" => ~aloc[p].put

\* A query that is answered with no row ends the call with InvalidCredential.
MissingRowIsInvalid ==
    \A p \in AuthProcs :
        (apc[p] = "query" /\ apc'[p] = "done" /\ repoUp) =>
            /\ repo[hashAPIKey(aloc[p].cred)] = NoRow
            /\ aloc'[p].ret = "ErrInvalidAPIKey"

\* An entry is only put in the cache by a call that succeeds.
OnlySuccessInserts ==
    \A h \in AuthHashes :
        (authCache'[h] # authCache[h] /\ authCache'[h] # NoAuth) =>
            \E p \in AuthProcs :
                /\ apc[p] = "put" /\ hashAPIKey(aloc[p].cred) = h
                /\ aloc'[p].ret = "nil"

\* C28: for a record found in the repository that is not valid Authenticate
\* returns SuspendedTenant if the tenant is suspended, else RevokedCredential
\* if the key is revoked, else ExpiredCredential if the key is expired or
\* its expiry is in the past, else InvalidCredential; an empty credential
\* returns MissingCredential without any cache or repository access; a
\* missing row returns InvalidCredential; no failed outcome inserts
\* anything in the cache.
C28_ErrorPrecedence ==
    /\ [](\A p \in AuthProcs : apc[p] = "done" => OutcomeOfCall(p))
    /\ [][MissingRowIsInvalid /\ OnlySuccessInserts]_vars

\* Authenticate has returned SuspendedTenant for a key that is revoked as
\* well and whose expiry is in the past.
C28_Witness ==
    /\ apc["a1"] = "done"
    /\ aloc["a1"].ret = "ErrSuspendedTenant"
    /\ aloc["a1"].rec.key = "revoked"
    /\ aloc["a1"].rec.exp # 0 /\ aloc["a1"].rec.exp < aloc["a1"].at


\* A lookup that finds no entry, an entry as old as the TTL or older, or an
\* entry that is not valid goes on to the repository.
MissFallsThrough ==
    \A p \in AuthProcs :
        (apc[p] = "cache" /\ apc'[p] # "cache") =>
            LET ac == authCache[hashAPIKey(aloc[p].cred)] IN
            (ac = NoAuth \/ ac.cachedAt + cacheTTL <= anow
                \/ ~IsValid(ac, anow)) =>
                    apc'[p] \in {"query", "remove"}

\* C29: Authenticate returns a record from the in-process cache only if
\* cached_at + cache_ttl > now and the record is valid at that moment, and
\* otherwise goes on to the repository; so a record served from the cache
\* is valid when returned and is younger than cache_ttl.
C29_CacheHitWithinTtl ==
    /\ [](\A p \in AuthProcs :
            (apc[p] = "done" /\ aloc[p].hit) =>
                /\ aloc[p].rec.cachedAt + cacheTTL > aloc[p].at
                /\ IsValid(aloc[p].rec, aloc[p].at))
    /\ [][MissFallsThrough]_vars


\* The asynchronous last_used write changes no call.
LastUsedChangesNoCall ==
    lastUsed' # lastUsed => (apc' = apc \/ \E p \in AuthProcs : apc[p] = "put")

\* C30: when the repository query of an Authenticate fails with a transport
\* failure the outcome that reaches the client is Unavailable, which can be
\* told from InvalidCredential, and nothing is cached; a failure of the
\* asynchronous last_used write changes the outcome of no Authenticate.
C30_TransportFailureIsUnavailable ==
    /\ [](\A p \in AuthProcs :
            (aloc[p].ret = "failed to query auth context") =>
                /\ ~aloc[p].put
                /\ aloc[p].ret # "ErrInvalidAPIKey"
                /\ (apc[p] = "idle" =>
                      aloc[p].resp # ResponseCode("ErrInvalidAPIKey")))
    /\ [][LastUsedChangesNoCall]_vars

\* C31: the cleanup task of the rate limiter and the cleanup task of the
\* auth cache end once shutdown has been signalled: after it neither makes
\* another cleanup pass.
C31_GcTasksStopOnShutdown == [][ctxDone => ~(Cleanup \/ CleanupCache)]_vars

\* C32: onData updates the cache before it publishes, so for every
\* order-book update a subscriber has dequeued the cache holds a snapshot of
\* the symbol whose sequence is at least the sequence of the update (no
\* Cleanup of the cache takes place in SpecSink).
C32_CacheAheadOfDequeue ==
    \A s \in SubIds : \A i \in 1..Len(received[s]) :
        LET sym == received[s][i][1]
            data == StreamDataUpdate(sym, received[s][i][2])
        IN  data.type = "orderbook" =>
                /\ orderbooks[sym] # 0
                /\ snaps[orderbooks[sym]].seq >= data.sequence

\* The last snapshot request of the client was answered NotFound: its
\* Subscribe returned nil.
AnsweredNotFound(p) == upc[p] = "idle" /\ uret[p].val = "nil"

\* Upstream has delivered an update of symbol A and onData has returned.
DeliveredUpdate == pubCount["A"] > 0 /\ pc["pA"] = "idle"

\* C33: a snapshot request answered NotFound has subscribed the symbol
\* upstream, and once upstream has delivered an update of the symbol the
\* repeated request returns a snapshot whose sequence is that of the
\* delivered update.
C33_RetryAfterDeliveryFindsSnapshot ==
    /\ [](AnsweredNotFound("u1") => streams[1] # 0)
    /\ [][(AnsweredNotFound("u1") /\ DeliveredUpdate
            /\ HandleGetOrderbook("u1", 1))
          => (lastGot' # NoValue
              /\ lastGot'.seq = StreamDataUpdate("A", pubCount["A"]).sequence)]_vars

\* The frames of kind k about symbol sym written to the connection of s.
FramesOf(s, k, sym) ==
    {i \in 1..Len(ws[s].conn) :
        ws[s].conn[i].kind = k /\ ws[s].conn[i].symbol = sym}

\* C34: a client that subscribes to a symbol with a cached book gets the
\* cached snapshot before any streamed update of the symbol: every update
\* frame of the symbol on the connection comes after a snapshot frame of
\* the symbol.
C34_SnapshotBeforeUpdates ==
    \A s \in SubIds : \A sym \in ws[s].cached :
        \A j \in FramesOf(s, "update", sym) :
            \E i \in FramesOf(s, "snapshot", sym) : i < j

\* C35: SetLimit on a key that has acquired, unreleased streams does not
\* forget them: the entry's count of streams in use is the same after the
\* call, so that the streams held stay within the limit in force and every
\* later ReleaseStream frees a slot that is held.
C35_SetLimitKeepsAcquired ==
    [][\A k \in LimKeys :
          (/\ limiters[k] # 0
           /\ \E p \in LimProcs, m \in 1..MaxStreamsArg :
                 SetLimit(p, k, defaultRPS, m))
          => cl'[limiters[k]].streams.active = cl[limiters[k]].streams.active]_vars

\* No goroutine is inside a hub operation.
HubAtRest == ~crashed /\ \A p \in HubProcs : pc[p] = "idle"

\* C36: whenever no hub operation is in progress, no topic contains a
\* subscriber whose send queue is closed: a subscriber unsubscribed, evicted
\* or swept through one symbol is in the topic of none of its symbols.
C36_NoClosedSubscriberInTopic ==
    HubAtRest =>
        \A sym \in DOMAIN topics : \A s \in topics[sym] : chanCloses[s] = 0

\* The connection of s has ended: Handle has returned and handleIncoming
\* has left its loop.
ConnectionEnded(s) == ws[s].out = "returned" /\ ws[s].in = "gone"

\* C37: when the handler of a WebSocket connection has returned, the
\* subscriber of the connection is in no topic.
C37_ReturnLeavesNoSubscription ==
    \A s \in SubIds :
        ConnectionEnded(s) =>
            \A sym \in DOMAIN topics : s \notin topics[sym]

\* The last call of the data sink was made by the worker of the stream
\* that is registered for symbol s now.
NewWorkerDelivered(s) ==
    /\ uev.ev = "data" /\ uev.symbol = s
    /\ streams[s] # 0 /\ uev.stream = streams[s]

\* C38: at most one worker invokes the data sink of a symbol: once the
\* worker of the stream a Subscribe registered has delivered an update, the
\* worker of a cancelled, earlier stream of the symbol delivers none.
C38_OneSinkPerSymbol ==
    [][\A i \in StreamAddrs :
          (/\ sobj[i].cancelled
           /\ streams[sobj[i].symbol] # i
           /\ WorkerData(i))
          => ~NewWorkerDelivered(sobj[i].symbol)]_vars

\* C39: budgets are per API key: the limiter entries of two different API
\* key ids are never the same entry.
C39_KeysHaveOwnEntries ==
    \A x \in ApiKeyIds, y \in ApiKeyIds :
        (x # y /\ limiters[KeyName(keyID(x))] # 0)
            => limiters[KeyName(keyID(x))] # limiters[KeyName(keyID(y))]

\* The counts of kind k in the buffers of the collector's map that carry
\* the pair x.
BufferedFor(x, k) ==
    LET a == collector.buffer[bufferKey(x[1], x[2])] IN
    IF a # 0 /\ <<collector.bufs[a].tenant, collector.bufs[a].key>> = x
    THEN collector.bufs[a].counts[k] ELSE 0

\* No Record call and no Flush is in progress.
CollectorAtRest == \A p \in DOMAIN collector.pc : collector.pc[p] = "idle"

\* C40: no recorded usage is lost: whenever no call is in progress, for
\* every (tenant, key) pair the counts handed to the repository plus the
\* counts still buffered are the Record calls made; and two different
\* pairs never share a buffer.
C40_NoUsageLost ==
    /\ CollectorAtRest =>
          \A x \in UsagePairs, k \in UsageKinds :
              collector.flushed[x][k] + BufferedFor(x, k) = collector.made[x][k]
    /\ \A x \in UsagePairs, y \in UsagePairs :
          (x # y /\ collector.buffer[bufferKey(x[1], x[2])] # 0)
              => collector.buffer[bufferKey(x[1], x[2])]
                     # collector.buffer[bufferKey(y[1], y[2])]

=============================================================================
